---- MODULE Spec2Model ----
(***************************************************************************)
(* Model of commctl: the failover HTTP session (MultiServerSession), the   *)
(* resource client (Client) of commctl/cli.py and of the console script    *)
(* commctl/client_script.py, and the CLI dispatch around them.             *)
(*                                                                         *)
(* Strings are sequences of tokens ("/" is a token of its own), so that    *)
(* concatenation, endswith('/'), rsplit('/') and format() are computed.    *)
(***************************************************************************)
EXTENDS Integers, Sequences, FiniteSets, TLC

VARIABLES
    impl,        \* which client runs: "cli" (cli.py) or "client_script"
    endpoint,    \* conf['endpoint'] as handed to Client
    servers,     \* MultiServerSession._servers
    method,      \* the Client method the dispatcher invokes
    names,       \* its name / address argument
    pc,          \* "start", "request", "response", "returned", "raised", "exit"
    x,           \* loop index of MultiServerSession.request
    idx,         \* number of the current session request within the call
    attempts,    \* attempts of the current session request, in order: the
                 \* URL contacted and how the attempt ended
    reqs,        \* session requests issued by the call: method and path
    resp,        \* the response the session returned last
    statuses,    \* status codes of the responses the call has handled
    helped,      \* the latest use of a verb helper: request, URL, response
                 \* and what the helper made of it
    results,     \* values the method collected so far
    raised,      \* the exception that left the call, if any
    exit_status, \* exit status of the process
    output,      \* what the dispatch printed
    args_config, \* the config attribute of the parsed arguments: <<>> when
                 \* the arguments carry none, else <<path>>
    env_config,  \* the environment variable COMMCTL_CONFIG: <<>> or <<path>>
    file,        \* the file at the path the loader opens
    filename,    \* the path the loader opened
    conf,        \* the configuration dict
    prompts,     \* the prompts shown to the user, in order
    auth,        \* the credentials Client.__init__ gave the session
    kubefile,    \* the kubeconfig file
    kube_context, \* what reading KubeConfig.current_context gave
    kube_user,   \* what reading KubeConfig.current_user gave
    pw_args,     \* the parsed arguments of passhash and what the user types
    hashes,      \* the hashes the runs of do_passhash returned
    rehashes,    \* each of them used as the salt to hash the password again
    host_arg,    \* the argument of host_address
    resolver,    \* what socket.gethostbyname does with it
    host_result, \* what host_address returned
    opt_items,   \* the argument of assemble_options
    opt_result,  \* what assemble_options returned
    argv,        \* the command line given to one of the subject parsers
    namespace,   \* the argparse.Namespace parsed from it
    client_method, \* the method name the dispatcher built
    bound,       \* what became of calling that method with the namespace
    pw_io,       \* where each run of do_passhash took the password from
    creds,       \* host_ssh: what _get returned for the host's credentials
    ssh_argv,    \* host_ssh: hostname and extra_args
    key_path,    \* host_ssh: ssh_priv_key_path
    disk,        \* the temporary files on disk, each with its content
    ssh_calls    \* the commands handed to subprocess.call

\* The state of a call of a Client method.
callvars == <<method, names, x, idx, attempts, reqs, resp, statuses, helped, results>>

\* The state of configuration loading and of the creation of the Client.
confvars == <<args_config, env_config, file, filename, conf, prompts, auth, kubefile>>

\* The properties read from a KubeConfig.
kubevars == <<kube_context, kube_user>>

\* The state of the helper functions: do_passhash, host_address,
\* assemble_options.
passvars == <<pw_args, hashes, rehashes>>

hostvars == <<host_arg, resolver, host_result>>

optvars == <<opt_items, opt_result>>

\* The state of command parsing and dispatching.
cmdvars == <<argv, namespace, client_method, bound>>

\* The state of host_ssh.
sshvars == <<creds, ssh_argv, key_path, disk, ssh_calls>>

toolvars == <<cmdvars, pw_io, sshvars>>

helpervars == <<passvars, hostvars, optvars, toolvars>>

\* The state a call of a Client method leaves alone.
elsewhere == <<confvars, kubevars, helpervars>>

vars == <<impl, endpoint, servers, pc, raised, exit_status, output, callvars,
          elsewhere>>

(* ------------------------------ bounds -------------------------------- *)

\* Longest endpoint list of a configuration.
MaxServers == 2

\* Longest list of names given to a bulk delete.
MaxNames == 2

\* Longest list of contexts of a kubeconfig file.
MaxContexts == 2

\* Longest list of users of a kubeconfig file.
MaxUsers == 2

\* Most runs of passhash on the same arguments.
MaxRuns == 2

\* Most addresses on a command line.
MaxAddresses == 2

\* Longest list of items given to assemble_options.
MaxItems == 3

(* ------------------------------ inputs -------------------------------- *)

\* The k-th endpoint of a configuration file: a base URL, every second one
\* written with a trailing '/'.
Endpoint(k) ==
    IF k % 2 = 1 THEN <<"http://h" \o ToString(k)>>
    ELSE <<"http://h" \o ToString(k), "/">>

\* conf['endpoint'] after the dispatcher made it a list: 1..MaxServers entries.
EndpointLists == {[i \in 1..k |-> Endpoint(i)] : k \in 1..MaxServers}

\* Names of clusters, hosts, networks and container managers.
Names == {"n" \o ToString(k) : k \in 1..MaxNames}

\* The name lists of a bulk delete (nargs='+'): 1..MaxNames names.
NameLists == {[i \in 1..k |-> "n" \o ToString(i)] : k \in 1..MaxNames}

\* Status codes a response can carry (http.client accepts 100..999).
Statuses == {199, 200, 201, 204, 299, 300, 403, 404, 500}

\* Response bodies: no JSON at all, falsy JSON, a JSON object, a JSON list.
Bodies == {"", "{}", "{\"k\": 1}", "[{\"address\": \"a\"}]"}

\* The responses considered: a body comes with the 2xx statuses that can
\* carry one; 204 and the statuses whose body no client reads come without.
Responses ==
    {r \in [status_code : Statuses, body : Bodies] :
        r.body # "" => r.status_code \in {200, 201, 299}}

NoResponse == [status_code |-> 0, body |-> ""]

(* --------------------------- exceptions ------------------------------- *)

NoException == [type |-> "none", args |-> <<>>]

Exception(type, args) == [type |-> type, args |-> args]

\* class ClientError(Exception); class NoMoreServersError(ClientError)
IsClientError(exc) == exc.type \in {"ClientError", "NoMoreServersError"}

\* Variant: the error names only the server tried last.
NoMoreServersArgs_last(_servers) == <<_servers[Len(_servers)]>>

\* The arguments of the terminal error: NoMoreServersError(*self._servers)
NoMoreServersArgs(_servers) == _servers

(* --------------------------- the session ------------------------------ *)

\* Variant: the servers are tried from the end of the list.
target_url_reversed(_servers, i, path) == _servers[Len(_servers) - i] \o path

\* target_url = self._servers[x] + path   (x counts from 0)
target_url(_servers, i, path) == _servers[i + 1] \o path

\* Variant: a request starts at the server the previous request ended on.
range_start_sticky(last_x) == last_x

\* for x in range(0, len(self._servers)): the index a request starts at,
\* whatever the index the previous request ended on.
range_start(last_x) == 0

\* Variant: a connection error ends the request at once, whatever the index.
request_step_no_failover(_servers, i, outcome) ==
    IF outcome.kind = "response" THEN "return"
    ELSE IF outcome.kind = "ConnectionError" THEN "raise"
    ELSE "propagate"

\* Variant: a 5xx response is treated like a connection error.
request_step_failover_on_5xx(_servers, i, outcome) ==
    IF outcome.kind = "response" /\ outcome.response.status_code < 500 THEN "return"
    ELSE IF outcome.kind \in {"response", "ConnectionError"}
         THEN IF i # Len(_servers) - 1 THEN "continue" ELSE "raise"
         ELSE "propagate"

\* Variant: a connection error never ends the loop, not even on the last
\* server.
request_step_never_raises(_servers, i, outcome) ==
    IF outcome.kind = "response" THEN "return"
    ELSE IF outcome.kind = "ConnectionError" THEN "continue"
    ELSE "propagate"

\* Variant: every exception of the underlying request counts as a
\* connection error.
request_step_failover_on_any(_servers, i, outcome) ==
    IF outcome.kind = "response" THEN "return"
    ELSE IF i # Len(_servers) - 1 THEN "continue" ELSE "raise"

\* One iteration of the loop of MultiServerSession.request: what the loop
\* does with the outcome of the underlying request against server x.
request_step(_servers, i, outcome) ==
    IF outcome.kind = "response" THEN "return"
    ELSE IF outcome.kind = "ConnectionError"
         THEN IF i # Len(_servers) - 1 THEN "continue" ELSE "raise"
         ELSE "propagate"

\* Variant: a loop that ends without an attempt raises the terminal error.
after_loop_raises(_servers) == "raise"

\* The loop of MultiServerSession.request ended without return or raise:
\* the function ends and returns None.
after_loop(_servers) == "return"

(* ------------------------- the resource client ------------------------ *)

\* Client.__init__: a trailing '/' is removed from every configured endpoint.
Client_endpoints(eps) ==
    [i \in 1..Len(eps) |->
        IF eps[i][Len(eps[i])] = "/"
        THEN SubSeq(eps[i], 1, Len(eps[i]) - 1)
        ELSE eps[i]]

M(verb, res, sub, kind) == [verb |-> verb, res |-> res, sub |-> sub, kind |-> kind]

\* The methods of cli.Client: verb, resource, sub-resource and the kind of
\* argument (one item, a list of items, none, an optional cluster name).
CliMethods ==
    [cluster_get |-> M("GET", "cluster", "", "item"),
     cluster_create |-> M("PUT", "cluster", "", "item"),
     cluster_delete |-> M("DELETE", "cluster", "", "bulk"),
     container_manager_list |-> M("GET", "container_managers", "", "none"),
     container_manager_get |-> M("GET", "container_managers", "", "item"),
     container_manager_create |-> M("PUT", "container_managers", "", "item"),
     container_manager_delete |-> M("DELETE", "container_managers", "", "bulk"),
     host_get |-> M("GET", "host", "", "item"),
     host_create |-> M("PUT", "host", "", "item"),
     host_delete |-> M("DELETE", "host", "", "bulk"),
     host_status |-> M("GET", "host", "status", "item"),
     cluster_deploy_status |-> M("GET", "cluster", "deploy", "item"),
     cluster_deploy_start |-> M("PUT", "cluster", "deploy", "item"),
     cluster_restart_status |-> M("GET", "cluster", "restart", "item"),
     cluster_restart_start |-> M("PUT", "cluster", "restart", "item"),
     cluster_upgrade_status |-> M("GET", "cluster", "upgrade", "item"),
     cluster_upgrade_start |-> M("PUT", "cluster", "upgrade", "item"),
     network_get |-> M("GET", "network", "", "item"),
     network_create |-> M("PUT", "network", "", "item"),
     network_delete |-> M("DELETE", "network", "", "bulk"),
     cluster_list |-> M("GET", "clusters", "", "none"),
     host_list |-> M("GET", "hosts", "", "optional"),
     network_list |-> M("GET", "networks", "", "none"),
     host_ssh |-> M("GET", "host", "creds", "item")]

\* The methods of client_script.Client.
ScriptMethods ==
    [get_cluster |-> M("GET", "cluster", "", "item"),
     create_cluster |-> M("PUT", "cluster", "", "item"),
     get_restart |-> M("GET", "cluster", "restart", "item"),
     create_restart |-> M("PUT", "cluster", "restart", "item"),
     get_upgrade |-> M("GET", "cluster", "upgrade", "item"),
     create_upgrade |-> M("PUT", "cluster", "upgrade", "item"),
     list_clusters |-> M("GET", "clusters", "", "none"),
     list_hosts |-> M("GET", "hosts", "", "optional")]

Impls == {"cli", "client_script"}

MethodsOf(i) == IF i = "cli" THEN CliMethods ELSE ScriptMethods

\* The argument lists a method can be called with.
ArgsOf(spec) ==
    CASE spec.kind = "item" -> {<<n>> : n \in Names}
      [] spec.kind = "bulk" -> NameLists
      [] spec.kind = "none" -> {<<>>}
      [] spec.kind = "optional" -> {<<>>} \cup {<<n>> : n \in Names}

\* '/api/v0/'
Api == <<"/", "api", "/", "v0", "/">>

\* Variant: an item is addressed under the plural name of its resource.
path_of_plural(spec, item) ==
    CASE spec.kind = "none" -> Api \o <<spec.res>>
      [] spec.kind = "optional" ->
            IF item = <<>> THEN Api \o <<spec.res>>
            ELSE Api \o <<"cluster", "/", item[1], "/", spec.res>>
      [] OTHER ->
            Api \o <<spec.res \o "s", "/", item[1]>>
                \o (IF spec.sub = "" THEN <<>> ELSE <<"/", spec.sub>>)

\* The path a method requests for one item: '/api/v0/<res>[/<item>][/<sub>]'.
path_of(spec, item) ==
    CASE spec.kind = "none" -> Api \o <<spec.res>>
      [] spec.kind = "optional" ->
            IF item = <<>> THEN Api \o <<spec.res>>
            ELSE Api \o <<"cluster", "/", item[1], "/", spec.res>>
      [] OTHER ->
            Api \o <<spec.res, "/", item[1]>>
                \o (IF spec.sub = "" THEN <<>> ELSE <<"/", spec.sub>>)

\* The item of the k-th session request of a call.
item_of(spec, _names, k) == IF spec.kind = "bulk" THEN <<_names[k]>> ELSE _names

\* Variant: a call on a single resource repeats its request once.
requests_of_retry(spec, _names) == IF spec.kind = "bulk" THEN Len(_names) ELSE 2

\* The number of session requests a call issues when none of them raises:
\* one per item of a bulk delete, one otherwise.
requests_of(spec, _names) == IF spec.kind = "bulk" THEN Len(_names) ELSE 1

(* ----------------------------- values --------------------------------- *)

Str(tokens) == [type |-> "str", val |-> tokens]

ListOfStr(tokens) == [type |-> "list", val |-> tokens]

Json(body) == [type |-> "json", val |-> <<body>>]

None == [type |-> "None", val |-> <<>>]

\* resp.json() raises ValueError on a body that is not JSON.
IsJSON(body) == body \in {"{}", "{\"k\": 1}", "[{\"address\": \"a\"}]"}

\* Python truth value of the decoded JSON.
Truthy(body) == body \in {"{\"k\": 1}", "[{\"address\": \"a\"}]"}

IsDict(body) == body \in {"{}", "{\"k\": 1}"}

Returns(value) == [raised |-> NoException, value |-> value]

Raises(type, message) == [raised |-> Exception(type, <<message>>), value |-> None]

\* str(status_code).startswith('2')
RECURSIVE LeadingDigit(_)
LeadingDigit(n) == IF n < 10 THEN n ELSE LeadingDigit(n \div 10)

\* Variant: every status below 300 counts as 2xx.
startswith2_below_300(status_code) == status_code < 300

startswith2(status_code) == LeadingDigit(status_code) = 2

\* request.path_url: the URL without scheme and host.
path_url(url) == Tail(url)

\* s.rsplit('/')[-1]
LastSegment(s) ==
    LET slashes == {i \in 1..Len(s) : s[i] = "/"}
        from == IF slashes = {} THEN 1
                ELSE 1 + CHOOSE i \in slashes : \A j \in slashes : j <= i
    IN  SubSeq(s, from, Len(s))

\* Variant: no case for 403, which falls through to the generic error.
handle_status_no_403(verb, url, r) ==
    IF r.status_code = 204 THEN Returns(Str(<<"No instance">>))
    ELSE IF startswith2(r.status_code)
    THEN IF IsJSON(r.body) /\ Truthy(r.body) THEN Returns(Json(r.body))
         ELSE IF r.status_code = 201
              THEN Returns(ListOfStr(<<"Created ">> \o LastSegment(path_url(url))))
              ELSE Returns(Str(<<"Success">>))
    ELSE IF r.status_code = 404 THEN Returns(Str(<<"No object found.">>))
    ELSE Raises("ClientError",
                <<"Unable to ", verb, " the object at ">> \o path_url(url)
                    \o <<": ", ToString(r.status_code)>>)

\* Variant: an error status is returned as a message instead of raised.
handle_status_returns_errors(verb, url, r) ==
    IF r.status_code = 204 THEN Returns(Str(<<"No instance">>))
    ELSE IF startswith2(r.status_code)
    THEN IF IsJSON(r.body) /\ Truthy(r.body) THEN Returns(Json(r.body))
         ELSE IF r.status_code = 201
              THEN Returns(ListOfStr(<<"Created ">> \o LastSegment(path_url(url))))
              ELSE Returns(Str(<<"Success">>))
    ELSE IF r.status_code = 403
    THEN Returns(Str(<<"The provided credentials were incorrect.">>))
    ELSE IF r.status_code = 404 THEN Returns(Str(<<"No object found.">>))
    ELSE Returns(Str(<<"Unable to ", verb, " the object at ">> \o path_url(url)
                         \o <<": ", ToString(r.status_code)>>))

\* cli.Client._handle_status
handle_status(verb, url, r) ==
    IF r.status_code = 204 THEN Returns(Str(<<"No instance">>))
    ELSE IF startswith2(r.status_code)
    THEN IF IsJSON(r.body) /\ Truthy(r.body) THEN Returns(Json(r.body))
         ELSE IF r.status_code = 201
              THEN Returns(ListOfStr(<<"Created ">> \o LastSegment(path_url(url))))
              ELSE Returns(Str(<<"Success">>))
    ELSE IF r.status_code = 403
    THEN Raises("ClientError", <<"The provided credentials were incorrect.">>)
    ELSE IF r.status_code = 404 THEN Returns(Str(<<"No object found.">>))
    ELSE Raises("ClientError",
                <<"Unable to ", verb, " the object at ">> \o path_url(url)
                    \o <<": ", ToString(r.status_code)>>)

\* client_script.Client._get
script_get(path, r) ==
    IF r.status_code > 199 /\ r.status_code < 300
    THEN IF ~IsJSON(r.body) THEN Raises("ValueError", <<"No JSON object could be decoded">>)
         ELSE IF Truthy(r.body) THEN Returns(Json(r.body))
         ELSE Returns(None)
    ELSE IF r.status_code = 403
    THEN Raises("ClientError", <<"Username/Password was incorrect.">>)
    ELSE Raises("ClientError",
                <<"Unable to get the object at ">> \o path
                    \o <<": ", ToString(r.status_code)>>)

\* client_script.Client._put
script_put(path, r) ==
    IF r.status_code = 201
    THEN IF ~IsJSON(r.body) THEN Raises("ValueError", <<"No JSON object could be decoded">>)
         ELSE IF Truthy(r.body) THEN Returns(Json(r.body))
         ELSE Returns(ListOfStr(<<"Created">>))
    ELSE IF r.status_code = 403
    THEN Raises("ClientError", <<"Username/Password was incorrect.">>)
    ELSE Raises("ClientError",
                <<"Unable to create an object at ">> \o path
                    \o <<": ", ToString(r.status_code)>>)

\* _get, _put and _delete of either client: the response of one session
\* request turned into a value or an exception.
verb_helper(i, verb, path, url, r) ==
    IF i = "cli" THEN handle_status(verb, url, r)
    ELSE IF verb = "GET" THEN script_get(path, r)
    ELSE script_put(path, r)

\* What the method does with the value its verb helper returned.
\*  - host_list / list_hosts without a cluster name build a list of addresses;
\*  - host_ssh calls result.get(...) and returns nothing;
\*  - every other method returns the value as it is.
after_helper(i, m, _names, h, body) ==
    IF h.raised.type # "none" THEN h
    ELSE IF m = "host_list" /\ _names = <<>>
    THEN IF h.value.type = "json" /\ IsDict(body)
         THEN Raises("TypeError", <<"string indices must be integers">>)
         ELSE h
    ELSE IF m = "list_hosts" /\ _names = <<>>
    THEN IF h.value.type = "json"
         THEN IF IsDict(body)
              THEN Raises("TypeError", <<"string indices must be integers">>)
              ELSE Returns(ListOfStr(<<"a">>))
         ELSE h
    ELSE IF m = "host_ssh"
    THEN IF h.value.type = "json" /\ IsDict(body) THEN Returns(None)
         ELSE Raises("AttributeError", <<"object has no attribute 'get'">>)
    ELSE h

(* ---------------------------- the dispatch ---------------------------- *)

\* The exit status argparse's error() ends the process with.
ParserErrorExit == 2

\* The exit status of SystemExit(1) and of an uncaught exception.
FailureExit == 1

\* Variant: a client error is reported but the exit status stays zero.
dispatch_exit_zero(exc) ==
    IF exc.type = "none" THEN 0
    ELSE IF exc.type = "NoMoreServersError" THEN FailureExit
    ELSE IF exc.type = "RequestException" \/ IsClientError(exc) THEN 0
    ELSE FailureExit

\* The except clauses of Dispatcher._dispatch and of client_script.main.
dispatch_exit(exc) ==
    IF exc.type = "none" THEN 0
    ELSE IF exc.type = "NoMoreServersError" THEN FailureExit
    ELSE IF exc.type = "RequestException" \/ IsClientError(exc) THEN ParserErrorExit
    ELSE FailureExit

\* Variant: the clause for ClientError comes before the clause for
\* NoMoreServersError, its subclass.
dispatch_output_generic_first(exc, values) ==
    IF exc.type = "none"
    THEN [kind |-> "result", lines |-> [i \in 1..Len(values) |-> values[i].val]]
    ELSE IF exc.type = "RequestException" \/ IsClientError(exc)
    THEN [kind |-> "error", lines |-> exc.args]
    ELSE IF exc.type = "NoMoreServersError"
    THEN [kind |-> "no_servers",
          lines |-> << <<"No servers could be reached. Tried the following:">> >>
                    \o [i \in 1..Len(exc.args) |-> <<"- ">> \o exc.args[i]]
                    \o << <<"Exiting...">> >>]
    ELSE [kind |-> "traceback", lines |-> exc.args]

\* What the dispatch prints: the result, the list of servers tried, the
\* parser's error message, or the interpreter's traceback.
dispatch_output(exc, values) ==
    IF exc.type = "none"
    THEN [kind |-> "result", lines |-> [i \in 1..Len(values) |-> values[i].val]]
    ELSE IF exc.type = "NoMoreServersError"
    THEN [kind |-> "no_servers",
          lines |-> << <<"No servers could be reached. Tried the following:">> >>
                    \o [i \in 1..Len(exc.args) |-> <<"- ">> \o exc.args[i]]
                    \o << <<"Exiting...">> >>]
    ELSE IF exc.type = "RequestException" \/ IsClientError(exc)
    THEN [kind |-> "error", lines |-> exc.args]
    ELSE [kind |-> "traceback", lines |-> exc.args]

(* ---------------------------- kubeconfig ----------------------------- *)

\* Python's None where a name is expected.
PyNone == "None"

\* The 'user' dict of a user entry; "" stands for a key that is absent or
\* whose value is empty.
Credentials(token, username, password, certificate, key) ==
    [token |-> token, username |-> username, password |-> password,
     certificate |-> certificate, key |-> key]

CredentialSets ==
    {Credentials("t0k", "", "", "", ""),
     Credentials("t0k", "bob", "pw", "", ""),
     Credentials("", "bob", "pw", "", ""),
     Credentials("", "bob", "", "", ""),
     Credentials("", "", "", "crt", "key"),
     Credentials("", "", "", "", "")}

\* The entries of 'users' and of 'contexts'.
UserSpecs ==
    {[name |-> "u1", user |-> c] : c \in CredentialSets}
    \cup {[name |-> "u2", user |-> Credentials("t0k2", "", "", "", "")]}

Contexts ==
    {[name |-> "c1", user |-> "u1"], [name |-> "c1", user |-> PyNone],
     [name |-> "c2", user |-> "u2"]}

SeqsUpTo(S, n) == UNION {[1..k -> S] : k \in 0..n}

\* The kubeconfig files: not there, not YAML, or a YAML mapping.
KubeFile(kind, current, contexts, users) ==
    [kind |-> kind, current_context |-> current, contexts |-> contexts,
     users |-> users]

NoKubeFile == KubeFile("missing", PyNone, <<>>, <<>>)

KubeConfigs ==
    {NoKubeFile, KubeFile("invalid", PyNone, <<>>, <<>>)}
    \cup {KubeFile("yaml", cur, ctxs, us) :
            cur \in {PyNone, "c1", "c2"},
            ctxs \in SeqsUpTo(Contexts, MaxContexts),
            us \in SeqsUpTo(UserSpecs, MaxUsers)}

NoContext == [name |-> PyNone, user |-> PyNone]

NoUser == [name |-> PyNone, type |-> PyNone, auth_headers |-> <<>>,
           token |-> "", username |-> "", password |-> ""]

Got(value) == [raised |-> NoException, value |-> value]

\* base64.encodestring: the encoded text followed by a newline.
encodestring(text) == "base64(" \o text \o ")\n"

\* Variant: username and password are looked at before the token.
KubeUser_password_first(spec) ==
    IF spec.user.username # "" /\ spec.user.password # ""
    THEN Got([name |-> spec.name, type |-> "password",
              auth_headers |->
                  << <<"Authorization",
                       "Basic " \o encodestring(spec.user.username \o ":"
                                                 \o spec.user.password)>> >>,
              token |-> "", username |-> spec.user.username,
              password |-> spec.user.password])
    ELSE IF spec.user.token # ""
    THEN Got([name |-> spec.name, type |-> "token",
              auth_headers |-> << <<"Authorization", "Bearer " \o spec.user.token>> >>,
              token |-> spec.user.token, username |-> "", password |-> ""])
    ELSE IF spec.user.certificate # "" /\ spec.user.key # ""
    THEN Got([name |-> spec.name, type |-> "client-certificate",
              auth_headers |-> <<>>,
              token |-> "", username |-> "", password |-> ""])
    ELSE [raised |-> Exception("KubeConfigUserTypeError",
                               << <<"Unknown user type: ", spec.name>> >>),
          value |-> NoUser]

\* KubeUser.__init__
KubeUser(spec) ==
    IF spec.user.token # ""
    THEN Got([name |-> spec.name, type |-> "token",
              auth_headers |-> << <<"Authorization", "Bearer " \o spec.user.token>> >>,
              token |-> spec.user.token, username |-> "", password |-> ""])
    ELSE IF spec.user.username # "" /\ spec.user.password # ""
    THEN Got([name |-> spec.name, type |-> "password",
              auth_headers |->
                  << <<"Authorization",
                       "Basic " \o encodestring(spec.user.username \o ":"
                                                 \o spec.user.password)>> >>,
              token |-> "", username |-> spec.user.username,
              password |-> spec.user.password])
    ELSE IF spec.user.certificate # "" /\ spec.user.key # ""
    THEN Got([name |-> spec.name, type |-> "client-certificate",
              auth_headers |-> <<>>,
              token |-> "", username |-> "", password |-> ""])
    ELSE [raised |-> Exception("KubeConfigUserTypeError",
                               << <<"Unknown user type: ", spec.name>> >>),
          value |-> NoUser]

\* The index of the first entry of the list with the name, 0 when none has it.
first_named(entries, name) ==
    IF \E i \in 1..Len(entries) : entries[i].name = name
    THEN CHOOSE i \in 1..Len(entries) :
            /\ entries[i].name = name
            /\ \A j \in 1..(i - 1) : entries[j].name # name
    ELSE 0

\* Variant: the last context with the name is the current one.
current_context_last(k) ==
    IF \E i \in 1..Len(k.contexts) : k.contexts[i].name = k.current_context
    THEN Got(k.contexts[CHOOSE i \in 1..Len(k.contexts) :
                            /\ k.contexts[i].name = k.current_context
                            /\ \A j \in (i + 1)..Len(k.contexts) :
                                  k.contexts[j].name # k.current_context])
    ELSE [raised |-> Exception("KubeConfigNoContextError",
                               << <<"No context has been set.">> >>),
          value |-> NoContext]

\* KubeConfig.current_context
current_context(k) ==
    LET i == first_named(k.contexts, k.current_context) IN
    IF i # 0 THEN Got(k.contexts[i])
    ELSE [raised |-> Exception("KubeConfigNoContextError",
                               << <<"No context has been set.">> >>),
          value |-> NoContext]

\* KubeConfig.current_user
current_user(k) ==
    LET ctx == current_context(k) IN
    IF ctx.raised.type # "none" THEN [raised |-> ctx.raised, value |-> NoUser]
    ELSE LET i == first_named(k.users, ctx.value.user) IN
         IF i # 0 THEN KubeUser(k.users[i])
         ELSE [raised |-> Exception("KubeConfigNoUserError",
                                    << <<"Can not find data for user ",
                                         ctx.value.user>> >>),
               value |-> NoUser]

\* KubeConfig.__init__: the exception opening and parsing the file raises.
KubeConfig_init(k) ==
    IF k.kind = "missing"
    THEN Exception("IOError", << <<"No such file or directory">> >>)
    ELSE IF k.kind = "invalid"
    THEN Exception("KubeConfigInvalidFileError", << <<"could not parse">> >>)
    ELSE NoException

(* --------------------------- configuration --------------------------- *)

\* The values of the configuration dict: a key that is absent, a string (its
\* tokens), a list of strings.
Absent == [type |-> "absent", val |-> <<>>]

JsonStr(s) == [type |-> "str", val |-> s]

JsonList(l) == [type |-> "list", val |-> l]

Conf(ep, username, password, kubeconfig) ==
    [endpoint |-> ep, username |-> username, password |-> password,
     kubeconfig |-> kubeconfig]

\* conf = {}
EmptyConf == Conf(Absent, Absent, Absent, Absent)

\* The values of the key 'endpoint' in a configuration file: absent, a
\* string, or a list (empty, 1..MaxServers entries, entries with more than
\* one trailing '/').
EndpointValues ==
    {Absent}
    \cup {JsonStr(e) : e \in {Endpoint(1), Endpoint(2), Endpoint(2) \o <<"/">>}}
    \cup {JsonList(l) : l \in EndpointLists
                            \cup {<<>>, <<Endpoint(2) \o <<"/">>, Endpoint(1)>>}}

\* The JSON objects a configuration file can hold.
ConfigFiles ==
    [endpoint : EndpointValues,
     username : {Absent, JsonStr(<<"admin">>)},
     password : {Absent, JsonStr(<<"secret">>)},
     kubeconfig : {Absent, JsonStr(<<"kube.yaml">>), JsonStr(<<>>)}]

\* The file at the path the loader opens: not there (ENOENT), there but not
\* readable (another IOError), not JSON, or a JSON object.
File(kind, c) == [kind |-> kind, conf |-> c]

Files ==
    {File(k, EmptyConf) : k \in {"missing", "unreadable", "unparsable"}}
    \cup {File("json", c) : c \in ConfigFiles}

\* default_config_file()
DefaultConfigFile == "~/.commissaire.json"

\* The path of the configuration file.  cli: getattr(args, 'config',
\* os.getenv('COMMCTL_CONFIG', default_config_file())); client_script:
\* args.config, which argparse always sets.
config_filename(i, ac, ev) ==
    IF i = "cli"
    THEN IF ac # <<>> THEN ac[1]
         ELSE IF ev # <<>> THEN ev[1] ELSE DefaultConfigFile
    ELSE ac[1]

\* argument_parser.error(message)
ParserError(message) == Exception("ParserError", <<message>>)

CouldNotBeOpened(path) ==
    ParserError(<<"Configuration file ", path, " could not be opened for reading">>)

UnableToParse == ParserError(<<"Unable to parse configuration file.">>)

\* open(filename) and json.load with their except clauses: the configuration
\* loaded and the exception that ends the loading, if any.
load_config(i, ac, f) ==
    CASE f.kind = "json" -> [conf |-> f.conf, raised |-> NoException]
      [] f.kind = "unparsable" -> [conf |-> EmptyConf, raised |-> UnableToParse]
      [] f.kind = "missing" /\ i = "cli" -> [conf |-> EmptyConf, raised |-> NoException]
      [] OTHER ->
            [conf |-> EmptyConf,
             raised |-> IF ac # <<>> THEN CouldNotBeOpened(ac[1])
                        ELSE Exception("AttributeError",
                                 << <<"'Namespace' object has no attribute 'config'">> >>)]

\* The key the loader prompts for next, "" when it prompts no further.
next_prompt(i, c) ==
    IF i = "cli"
    THEN IF c.endpoint.type = "absent" THEN "endpoint"
         ELSE IF c.kubeconfig.type # "absent" THEN ""
         ELSE IF c.username.type = "absent" THEN "username"
         ELSE IF c.password.type = "absent" THEN "password"
         ELSE ""
    ELSE IF c.username.type = "absent" THEN "username"
         ELSE IF c.endpoint.type = "absent" THEN "endpoint"
         ELSE IF c.password.type = "absent" THEN "password"
         ELSE ""

\* What the user can type at a prompt.
Answers(key) ==
    CASE key = "endpoint" -> {Endpoint(1), Endpoint(2)}
      [] key = "username" -> {<<"root">>}
      [] OTHER -> {<<"typed">>}

\* Variant: the endpoint is handed on as the file or the prompt gave it.
endpoint_list_unwrapped(v) == v

\* if type(conf['endpoint']) is not list: conf['endpoint'] = [conf['endpoint']]
endpoint_list(v) == IF v.type # "list" THEN JsonList(<<v.val>>) ELSE v

\* for ep in conf['endpoint']: the items of a list; of a string, its
\* characters (here its tokens), each a string.
items(v) ==
    IF v.type = "list" THEN v.val ELSE [k \in 1..Len(v.val) |-> <<v.val[k]>>]

Auth(kind, headers, username, password) ==
    [kind |-> kind, headers |-> headers, username |-> username,
     password |-> password]

NoAuth == Auth("none", <<>>, <<>>, <<>>)

Created(eps, a) == [endpoints |-> eps, auth |-> a, raised |-> NoException]

NotCreated(exc) == [endpoints |-> <<>>, auth |-> NoAuth, raised |-> exc]

\* self._con.auth = (conf['username'], conf['password'])
basic_auth(c, eps) ==
    IF c.username.type = "absent"
    THEN NotCreated(Exception("KeyError", << <<"username">> >>))
    ELSE IF c.password.type = "absent"
    THEN NotCreated(Exception("KeyError", << <<"password">> >>))
    ELSE Created(eps, Auth("basic", <<>>, c.username.val, c.password.val))

\* Variant: a username and password in the configuration are favoured over
\* the kubeconfig.
Client_init_favours_password(i, c, kf) ==
    LET eps == Client_endpoints(items(c.endpoint)) IN
    IF items(c.endpoint) = <<>>
    THEN NotCreated(Exception("IndexError", << <<"list index out of range">> >>))
    ELSE IF /\ i = "cli" /\ c.kubeconfig.type # "absent" /\ c.kubeconfig.val # <<>>
            /\ (c.username.type = "absent" \/ c.password.type = "absent")
    THEN IF KubeConfig_init(kf).type # "none" THEN NotCreated(KubeConfig_init(kf))
         ELSE LET u == current_user(kf) IN
              IF u.raised.type = "KubeConfigNoUserError"
              THEN NotCreated(Exception("InvalidConfiguration",
                       << <<"KubeConfigNoUserError", ": ">> \o u.raised.args[1] >>))
              ELSE IF u.raised.type # "none" THEN NotCreated(u.raised)
              ELSE Created(eps, Auth("kubeconfig", u.value.auth_headers, <<>>, <<>>))
    ELSE basic_auth(c, eps)

\* Variant: every error of the kubeconfig becomes InvalidConfiguration.
Client_init_converts_all(i, c, kf) ==
    LET eps == Client_endpoints(items(c.endpoint)) IN
    IF items(c.endpoint) = <<>>
    THEN NotCreated(Exception("IndexError", << <<"list index out of range">> >>))
    ELSE IF i = "cli" /\ c.kubeconfig.type # "absent" /\ c.kubeconfig.val # <<>>
    THEN IF KubeConfig_init(kf).type # "none"
         THEN NotCreated(Exception("InvalidConfiguration",
                  << <<KubeConfig_init(kf).type, ": ">> \o KubeConfig_init(kf).args[1] >>))
         ELSE LET u == current_user(kf) IN
              IF u.raised.type # "none"
              THEN NotCreated(Exception("InvalidConfiguration",
                       << <<u.raised.type, ": ">> \o u.raised.args[1] >>))
              ELSE Created(eps, Auth("kubeconfig", u.value.auth_headers, <<>>, <<>>))
    ELSE basic_auth(c, eps)

\* Client.__init__ of cli.py and of client_script.py
Client_init(i, c, kf) ==
    LET eps == Client_endpoints(items(c.endpoint)) IN
    IF items(c.endpoint) = <<>>
    THEN NotCreated(Exception("IndexError", << <<"list index out of range">> >>))
    ELSE IF i = "cli" /\ c.kubeconfig.type # "absent" /\ c.kubeconfig.val # <<>>
    THEN IF KubeConfig_init(kf).type # "none" THEN NotCreated(KubeConfig_init(kf))
         ELSE LET u == current_user(kf) IN
              IF u.raised.type = "KubeConfigNoUserError"
              THEN NotCreated(Exception("InvalidConfiguration",
                       << <<"KubeConfigNoUserError", ": ">> \o u.raised.args[1] >>))
              ELSE IF u.raised.type # "none" THEN NotCreated(u.raised)
              ELSE Created(eps, Auth("kubeconfig", u.value.auth_headers, <<>>, <<>>))
    ELSE basic_auth(c, eps)

\* No configuration is being loaded.
NoConfiguration ==
    /\ args_config = <<>>
    /\ env_config = <<>>
    /\ file = File("missing", EmptyConf)
    /\ filename = ""
    /\ conf = EmptyConf
    /\ prompts = <<>>
    /\ auth = NoAuth
    /\ kubefile = NoKubeFile

\* No property of a KubeConfig has been read.
NotRead == [raised |-> NoException, value |-> NoContext]

NoKubeConfig ==
    /\ kube_context = NotRead
    /\ kube_user = [raised |-> NoException, value |-> NoUser]

(* ------------------------------ passhash ------------------------------ *)

\* The arguments of passhash: --password and --file (<<>> when not given,
\* else <<text>>, for --file the text read from it), --rounds, and what the
\* user types at the getpass prompt.
PassArgs ==
    [password : {<<>>, <<"mypass">>, <<"">>},
     file : {<<>>, <<"mypass">>, <<"filepass\n">>},
     typed : {"mypass", "t"},
     rounds : {3, 4, 12, 31, 32}]

NoPassArgs == [password |-> <<>>, file |-> <<>>, typed |-> "", rounds |-> 0]

\* The random salts bcrypt.gensalt can draw.
Salts == {"saltA", "saltB"}

BcryptValue(rounds, salt, digest) ==
    [rounds |-> rounds, salt |-> salt, digest |-> digest]

\* bcrypt.gensalt(log_rounds): the cost and a random salt, no digest.
gensalt(log_rounds, entropy) == BcryptValue(log_rounds, entropy, <<>>)

\* bcrypt.gensalt raises ValueError for a cost outside 4..31.
ValidRounds(log_rounds) == log_rounds >= 4 /\ log_rounds <= 31

\* bcrypt.hashpw(password, salt): cost and salt are read from the second
\* argument (a salt or an earlier hash), whose digest is ignored; the digest
\* is a function of password, cost and salt.
hashpw(password, salt) ==
    BcryptValue(salt.rounds, salt.salt,
                <<password, ToString(salt.rounds), salt.salt>>)

\* The password do_passhash hashes: --password, else the file, else the prompt.
password_of(args) ==
    IF args.password # <<>> THEN args.password[1]
    ELSE IF args.file # <<>> THEN args.file[1]
    ELSE args.typed

\* Variant: the file is looked at before the --password argument.
password_source_file_first(args) ==
    IF args.file # <<>> THEN "file"
    ELSE IF args.password # <<>> THEN "argument"
    ELSE "prompt"

\* The branch of do_passhash that yields the password.
password_source(args) ==
    IF args.password # <<>> THEN "argument"
    ELSE IF args.file # <<>> THEN "file"
    ELSE "prompt"

\* What that branch does: args.file.read() is called, getpass.getpass() is
\* called, and the text that becomes pw.
read_password(args) ==
    [source |-> password_source(args),
     file_read |-> password_source(args) = "file",
     prompted |-> password_source(args) = "prompt",
     pw |-> CASE password_source(args) = "argument" -> args.password[1]
              [] password_source(args) = "file" -> args.file[1]
              [] OTHER -> args.typed]

\* Variant: the password is not passed on to bcrypt.
do_passhash_no_password(args, entropy) ==
    hashpw("", gensalt(args.rounds, entropy))

\* helpers.do_passhash
do_passhash(args, entropy) ==
    hashpw(password_of(args), gensalt(args.rounds, entropy))

(* ---------------------------- host_address ---------------------------- *)

\* The names given as addresses on the command line.
HostNames == {"example.org", "192.168.0.1"}

\* What socket.gethostbyname does with a name: it returns an address, or
\* raises socket.gaierror with a strerror (None when the error has none).
Resolved(kind, value) == [kind |-> kind, value |-> value]

Resolutions ==
    {Resolved("address", a) : a \in {"10.0.0.1", "192.168.0.1"}}
    \cup {Resolved("gaierror", e) : e \in {"Name or service not known", PyNone}}

\* The name service: what gethostbyname does with each name.
Resolvers == [HostNames -> Resolutions]

\* Variant: the resolver's error is not caught.
host_address_uncaught(arg, gethostbyname) ==
    IF gethostbyname[arg].kind = "address"
    THEN [raised |-> NoException, value |-> gethostbyname[arg].value]
    ELSE [raised |-> Exception(gethostbyname[arg].kind,
                               << <<gethostbyname[arg].value>> >>),
          value |-> ""]

\* cli.host_address
host_address(arg, gethostbyname) ==
    IF gethostbyname[arg].kind = "address"
    THEN [raised |-> NoException, value |-> gethostbyname[arg].value]
    ELSE IF gethostbyname[arg].kind = "gaierror"
    THEN [raised |-> Exception("ArgumentTypeError",
                               << <<arg, ": ", gethostbyname[arg].value>> >>),
          value |-> ""]
    ELSE [raised |-> Exception(gethostbyname[arg].kind,
                               << <<gethostbyname[arg].value>> >>),
          value |-> ""]

\* host_address has not been called.
NoHostAddress ==
    /\ host_arg = <<>>
    /\ resolver = [n \in HostNames |-> Resolved("address", n)]
    /\ host_result = <<>>

(* -------------------------- assemble_options -------------------------- *)

\* 'key=value' items, as tokens.
PairItems == {<<"a", "=", "b">>, <<"c", "=", "d">>, <<"e", "=", "f">>}

\* Serialized JSON values, as tokens: two objects, true, null, a list.
JsonItems ==
    {<<"{", "a", ":", "b", ",", "c", ":", "d", "}">>,
     <<"{", "e", ":", "f", "}">>,
     <<"true">>, <<"null">>,
     <<"[", "{", "a", ":", "b", "}", "]">>}

\* The lists given to assemble_options: 'key=value' items or JSON texts.
ItemLists ==
    UNION {[1..k -> PairItems] \cup [1..k -> JsonItems] : k \in 0..MaxItems}

\* json.loads of a text: the kind of value and, for an object, its pairs.
json_loads(text) ==
    CASE text[1] = "{" ->
            [type |-> "dict",
             pairs |-> {<<text[4 * k - 2], text[4 * k]>> : k \in 1..((Len(text) - 1) \div 4)}]
      [] text[1] = "[" -> [type |-> "list", pairs |-> {}]
      [] text[1] = "true" -> [type |-> "bool", pairs |-> {}]
      [] OTHER -> [type |-> "NoneType", pairs |-> {}]

\* dict.update: the pairs of d, those of e replacing the ones of equal key.
update(d, e) ==
    {p \in d : \A q \in e : q[1] # p[1]} \cup e

Options(pairs) == [raised |-> NoException, value |-> pairs]

\* Variant: a JSON value that is no object is skipped.
option_of_lenient(item) ==
    IF Len(item) = 3 /\ item[2] = "=" THEN Options({<<item[1], item[3]>>})
    ELSE Options(json_loads(item).pairs)

\* What one item contributes: the pair of a 'key=value' item, the pairs of a
\* JSON object; TypeError for any other JSON value.
option_of(item) ==
    IF Len(item) = 3 /\ item[2] = "=" THEN Options({<<item[1], item[3]>>})
    ELSE IF json_loads(item).type = "dict" THEN Options(json_loads(item).pairs)
    ELSE [raised |-> Exception("TypeError", << <<"not a JSON object">> >>),
          value |-> {}]

\* cli.assemble_options
RECURSIVE assemble_options(_)
assemble_options(option_items) ==
    IF option_items = <<>> THEN Options({})
    ELSE LET rest == assemble_options(SubSeq(option_items, 1, Len(option_items) - 1))
             last == option_of(option_items[Len(option_items)])
         IN  IF rest.raised.type # "none" THEN rest
             ELSE IF last.raised.type # "none" THEN last
             ELSE Options(update(rest.value, last.value))

\* assemble_options has not been called.
NoOptions ==
    /\ opt_items = <<>>
    /\ opt_result = Options({})

(* ------------------------------ host_ssh ------------------------------ *)

\* What self._get returns for /api/v0/host/<hostname>/creds: the JSON object
\* of the response, or one of the strings of _handle_status.  "" stands for
\* a key that is absent or whose value is empty.
HostCreds(kind, ssh_priv_key, remote_user) ==
    [kind |-> kind, ssh_priv_key |-> ssh_priv_key, remote_user |-> remote_user]

CredsResults ==
    {HostCreds("dict", "dGVzdAo=", "root"),
     HostCreds("dict", "a2V5", "admin"),
     HostCreds("dict", "!", "root"),
     HostCreds("dict", "dGVzdAo=", ""),
     HostCreds("dict", "", "root"),
     HostCreds("dict", "", ""),
     HostCreds("str", "", "")}

NoCreds == HostCreds("none", "", "")

\* hostname and extra_args of the command line.
SshArgvs ==
    [hostname : {"127.0.0.1", "example.org"},
     extra_args : {<<>>, <<"-p 22">>, <<"-p 22", "-v">>}]

NoSshArgv == [hostname |-> "", extra_args |-> <<>>]

\* base64.decodestring: the decoded text, or binascii.Error for text that
\* is not base64.
decodestring(text) ==
    CASE text = "dGVzdAo=" -> Returns("test\n")
      [] text = "a2V5" -> Returns("key")
      [] OTHER -> Raises("binascii.Error", <<"Incorrect padding">>)

\* if result.get('ssh_priv_key') and result.get('remote_user')
has_key_and_user(result) ==
    result.ssh_priv_key # "" /\ result.remote_user # ""

\* The path tempfile.mkstemp returns.
TempPath == "/tmp/tmpkey"

File_on_disk(path, content) == [path |-> path, content |-> content]

\* 'ssh -i {0} -l {1} {2} {3}'.format(ssh_priv_key_path,
\* result['remote_user'], ' '.join(extra_args), hostname), and what is on
\* disk when the shell runs it.
ssh_cmd(path, result, av, files) ==
    [line |-> <<"ssh -i ", path, " -l ", result.remote_user, " ">>
              \o av.extra_args \o <<" ", av.hostname>>,
     files |-> files]

\* Variant: the key file is removed only when nothing was raised.
remove_keyfile_on_success(path, files, exc) ==
    IF path # PyNone /\ exc.type = "none"
    THEN {f \in files : f.path # path}
    ELSE files

\* The finally clause: if ssh_priv_key_path: os.remove(ssh_priv_key_path)
remove_keyfile(path, files, exc) ==
    IF path # PyNone
    THEN {f \in files : f.path # path}
    ELSE files

\* host_ssh has not been called.
NoSsh ==
    /\ creds = NoCreds
    /\ ssh_argv = NoSshArgv
    /\ key_path = PyNone
    /\ disk = {}
    /\ ssh_calls = <<>>

(* ----------------------- commands and dispatch ------------------------ *)

Command(command, subcommand, dests) ==
    [command |-> command, subcommand |-> subcommand, dests |-> dests]

\* The commands each subject parser accepts, with the dest of every argument
\* the command's parser adds; subcommand is "" where the command has none.
Parsers ==
    [cluster |->
        {Command("create", "", {"type", "network", "name"}),
         Command("delete", "", {"name"}),
         Command("get", "", {"name"}),
         Command("list", "", {}),
         Command("deploy", "start", {"name", "version"}),
         Command("deploy", "status", {"name"}),
         Command("restart", "start", {"name"}),
         Command("restart", "status", {"name"}),
         Command("upgrade", "start", {"name"}),
         Command("upgrade", "status", {"name"})},
     container_manager |->
        {Command("create", "", {"type", "options", "name"}),
         Command("delete", "", {"name"}),
         Command("get", "", {"name"}),
         Command("list", "", {})},
     host |->
        {Command("create", "", {"address", "ssh-priv-key", "cluster"}),
         Command("delete", "", {"address"}),
         Command("get", "", {"address"}),
         Command("list", "", {"name"}),
         Command("status", "", {"address"}),
         Command("ssh", "", {"hostname", "extra_args"})},
     network |->
        {Command("create", "", {"name", "type", "options"}),
         Command("delete", "", {"name"}),
         Command("get", "", {"name"}),
         Command("list", "", {"name"})}]

Subjects == DOMAIN Parsers

\* A command line: the subject, one of its commands, and whether the caller's
\* parser also defines --config.
CommandLines ==
    {[subject |-> s, cmd |-> c, config |-> g] :
        s \in Subjects, c \in UNION {Parsers[t] : t \in Subjects}, g \in BOOLEAN}

NoArgv == [subject |-> "", cmd |-> Command("", "", {}), config |-> FALSE]

\* parse_args: the namespace has an attribute for every argument of the
\* command's parser (options and optional positionals get their default),
\* for the dest of each subparser walked through, and for the defaults set
\* by _configure_parser.
parse_args(line) ==
    [keys |-> line.cmd.dests \cup {"command", "_class", "func"}
              \cup (IF line.cmd.subcommand # "" THEN {"subcommand"} ELSE {})
              \cup (IF line.config THEN {"config"} ELSE {}),
     command |-> line.cmd.command,
     subcommand |-> line.cmd.subcommand]

NoNamespace == [keys |-> {}, command |-> "", subcommand |-> ""]

\* Variant: the subcommand is never appended.
dispatch_command_no_subcommand(subject, ns) ==
    subject \o "_" \o ns.command

\* dispatch_cluster_command, dispatch_container_manager_command,
\* dispatch_host_command, dispatch_network_command: the name of the Client
\* method.
dispatch_command(subject, ns) ==
    IF subject \in {"cluster", "container_manager"} /\ "subcommand" \in ns.keys
    THEN subject \o "_" \o ns.command \o "_" \o ns.subcommand
    ELSE subject \o "_" \o ns.command

Signature(parameters, lookups) == [parameters |-> parameters, lookups |-> lookups]

\* The named parameters of each Client method, and the keys its body looks
\* up in kwargs with kwargs[...].
Signatures ==
    [cluster_get |-> Signature({"name"}, {}),
     cluster_create |-> Signature({"name"}, {"type", "network"}),
     cluster_delete |-> Signature({"name"}, {}),
     container_manager_list |-> Signature({}, {}),
     container_manager_get |-> Signature({"name"}, {}),
     container_manager_create |-> Signature({"name"}, {"type"}),
     container_manager_delete |-> Signature({"name"}, {}),
     host_get |-> Signature({"address"}, {}),
     host_create |-> Signature({"address"}, {"ssh-priv-key", "cluster"}),
     host_delete |-> Signature({"address"}, {}),
     host_status |-> Signature({"address"}, {}),
     cluster_deploy_status |-> Signature({"name"}, {}),
     cluster_deploy_start |-> Signature({"name", "version"}, {}),
     cluster_restart_status |-> Signature({"name"}, {}),
     cluster_restart_start |-> Signature({"name"}, {}),
     cluster_upgrade_status |-> Signature({"name"}, {}),
     cluster_upgrade_start |-> Signature({"name"}, {}),
     network_get |-> Signature({"name"}, {}),
     network_create |-> Signature({"name"}, {}),
     network_delete |-> Signature({"name"}, {}),
     cluster_list |-> Signature({}, {}),
     host_list |-> Signature({"name"}, {}),
     network_list |-> Signature({}, {}),
     host_ssh |-> Signature({"hostname", "extra_args"}, {})]

\* bound_method = getattr(client, client_method);
\* bound_method(**self._args.__dict__): every method takes **kwargs, so no
\* attribute of the namespace is unexpected.
call_bound_method(m, ns) ==
    IF m \notin DOMAIN CliMethods THEN "AttributeError"
    ELSE IF ~(Signatures[m].parameters \subseteq ns.keys) THEN "TypeError"
    ELSE IF ~(Signatures[m].lookups \subseteq ns.keys) THEN "KeyError"
    ELSE "called"

\* No command line has been parsed.
NoCommand ==
    /\ argv = NoArgv
    /\ namespace = NoNamespace
    /\ client_method = ""
    /\ bound = "none"

NoTools ==
    /\ NoCommand
    /\ pw_io = <<>>
    /\ NoSsh

\* The helper functions have not been called.
NoHelpers ==
    /\ pw_args = NoPassArgs
    /\ hashes = <<>>
    /\ rehashes = <<>>
    /\ NoHostAddress
    /\ NoOptions
    /\ NoTools

(* ------------------------------ actions ------------------------------- *)

Outcome(kind, r) == [kind |-> kind, response |-> r]

Request(spec, item) == [method |-> spec.verb, path |-> path_of(spec, item)]

NoRequest == [method |-> "none", path |-> <<>>]

NotHelped == [request |-> NoRequest, url |-> <<>>, response |-> NoResponse,
              outcome |-> Returns(None)]

\* No method of the Client has been called.
NoCall ==
    /\ method = "none"
    /\ names = <<>>
    /\ x = 0
    /\ idx = 0
    /\ attempts = <<>>
    /\ reqs = <<>>
    /\ resp = NoResponse
    /\ statuses = <<>>
    /\ helped = NotHelped
    /\ results = <<>>

\* The process runs: nothing raised, nothing printed, no exit status.
Running ==
    /\ raised = NoException
    /\ exit_status = -1
    /\ output = [kind |-> "none", lines |-> <<>>]

Init ==
    /\ impl = "none"
    /\ endpoint = <<>>
    /\ servers = <<>>
    /\ pc = "start"
    /\ NoCall
    /\ Running
    /\ NoConfiguration
    /\ NoKubeConfig
    /\ NoHelpers

\* The dispatcher creates the Client from the configuration and invokes the
\* method, which issues its first session request.
Dispatch ==
    /\ pc = "start"
    /\ \E i \in Impls, eps \in EndpointLists :
       \E m \in DOMAIN MethodsOf(i) :
       \E a \in ArgsOf(MethodsOf(i)[m]) :
          /\ impl' = i
          /\ endpoint' = eps
          /\ servers' = Client_endpoints(eps)
          /\ method' = m
          /\ names' = a
          /\ idx' = 1
          /\ reqs' = <<Request(MethodsOf(i)[m], item_of(MethodsOf(i)[m], a, 1))>>
    /\ pc' = "request"
    /\ x' = range_start(x)
    /\ UNCHANGED <<attempts, resp, statuses, helped, results, raised, exit_status,
                   output, elsewhere>>

\* One iteration of the loop of MultiServerSession.request, the underlying
\* request against server x ending as the outcome says.
Attempt(outcome) ==
    /\ pc = "request"
    /\ x < Len(servers)
    /\ attempts' = Append(attempts,
                          [url |-> target_url(servers, x, reqs[Len(reqs)].path),
                           outcome |-> outcome.kind,
                           response |-> outcome.response])
    /\ LET step == request_step(servers, x, outcome) IN
          CASE step = "return" ->
                  /\ resp' = outcome.response
                  /\ pc' = "response"
                  /\ UNCHANGED <<x, raised>>
            [] step = "continue" ->
                  /\ x' = x + 1
                  /\ UNCHANGED <<pc, resp, raised>>
            [] step = "raise" ->
                  /\ raised' = Exception("NoMoreServersError", NoMoreServersArgs(servers))
                  /\ pc' = "raised"
                  /\ UNCHANGED <<x, resp>>
            [] OTHER ->
                  /\ raised' = Exception("RequestException", << <<"Read timed out.">> >>)
                  /\ pc' = "raised"
                  /\ UNCHANGED <<x, resp>>
    /\ UNCHANGED <<impl, endpoint, servers, method, names, idx, reqs, statuses,
                   helped, results, exit_status, output, elsewhere>>

\* The server answers: any status, any body.
request_response == \E r \in Responses : Attempt(Outcome("response", r))

\* The connection fails (requests.ConnectionError).
request_ConnectionError == Attempt(Outcome("ConnectionError", NoResponse))

\* The request fails otherwise (a requests exception that is no
\* ConnectionError, such as a read timeout).
request_RequestException == Attempt(Outcome("ReadTimeout", NoResponse))

\* The verb helper interprets the response the session returned; the method
\* then returns, raises, or (bulk delete) goes on to its next item.
Handle ==
    /\ pc = "response"
    /\ LET spec == MethodsOf(impl)[method]
           cur == reqs[Len(reqs)]
           url == attempts[Len(attempts)].url
           g == verb_helper(impl, cur.method, cur.path, url, resp)
           h == after_helper(impl, method, names, g, resp.body)
       IN  /\ statuses' = Append(statuses, resp.status_code)
           /\ helped' = [request |-> cur, url |-> url, response |-> resp,
                         outcome |-> g]
           /\ IF h.raised.type # "none"
              THEN /\ raised' = h.raised
                   /\ pc' = "raised"
                   /\ UNCHANGED <<results, idx, reqs, x, attempts>>
              ELSE /\ results' = Append(results, h.value)
                   /\ UNCHANGED raised
                   /\ IF idx < requests_of(spec, names)
                      THEN /\ idx' = idx + 1
                           /\ reqs' = Append(reqs,
                                  Request(spec, item_of(spec, names, idx + 1)))
                           /\ x' = range_start(x)
                           /\ attempts' = <<>>
                           /\ pc' = "request"
                      ELSE /\ pc' = "returned"
                           /\ UNCHANGED <<idx, reqs, x, attempts>>
    /\ UNCHANGED <<impl, endpoint, servers, method, names, resp, exit_status, output,
                   elsewhere>>

\* The dispatcher prints the result or handles the exception, and the
\* process ends.
Exit ==
    /\ pc \in {"returned", "raised"}
    /\ exit_status' = dispatch_exit(raised)
    /\ output' = dispatch_output(raised, results)
    /\ pc' = "exit"
    /\ UNCHANGED <<impl, endpoint, servers, method, names, x, idx, attempts, reqs,
                   resp, statuses, helped, results, raised, elsewhere>>

Next ==
    \/ Dispatch
    \/ request_response
    \/ request_ConnectionError
    \/ request_RequestException
    \/ Handle
    \/ Exit

Spec == Init /\ [][Next]_vars

(* ----------------------- the session on its own ----------------------- *)

\* The requests made of a session: method and path.
SessionRequests ==
    {[method |-> "GET", path |-> Api \o <<"clusters">>],
     [method |-> "PUT", path |-> Api \o <<"host", "/", "n1">>],
     [method |-> "DELETE", path |-> Api \o <<"network", "/", "n1">>]}

\* MultiServerSession(servers): any list of base URLs, the empty one included.
SessionInit ==
    /\ impl = "none"
    /\ endpoint = <<>>
    /\ servers \in {<<>>} \cup {Client_endpoints(eps) : eps \in EndpointLists}
    /\ method = "none"
    /\ names = <<>>
    /\ pc = "request"
    /\ x = 0
    /\ idx = 1
    /\ attempts = <<>>
    /\ reqs \in {<<r>> : r \in SessionRequests}
    /\ resp = NoResponse
    /\ statuses = <<>>
    /\ helped = NotHelped
    /\ results = <<>>
    /\ Running
    /\ NoConfiguration
    /\ NoKubeConfig
    /\ NoHelpers

\* range(0, len(self._servers)) is used up: the loop ends, and with it the
\* function.
request_loop_ends ==
    /\ pc = "request"
    /\ x >= Len(servers)
    /\ IF after_loop(servers) = "return"
       THEN /\ resp' = NoResponse
            /\ pc' = "response"
            /\ UNCHANGED raised
       ELSE /\ raised' = Exception("NoMoreServersError", NoMoreServersArgs(servers))
            /\ pc' = "raised"
            /\ UNCHANGED resp
    /\ UNCHANGED <<impl, endpoint, servers, method, names, x, idx, attempts, reqs,
                   statuses, helped, results, exit_status, output, elsewhere>>

SessionNext ==
    \/ request_response
    \/ request_ConnectionError
    \/ request_RequestException
    \/ request_loop_ends

SessionSpec == SessionInit /\ [][SessionNext]_vars

\* The underlying request of every attempt ends, and the caller runs on.
LiveSessionSpec == SessionSpec /\ WF_vars(SessionNext)

(* ------------------- loading the configuration ------------------------ *)

\* The kubeconfig files a configuration refers to: one context and one user
\* with each kind of credentials, no current context, no such user, no file,
\* no YAML.
ClientKubeConfigs ==
    {NoKubeFile, KubeFile("invalid", PyNone, <<>>, <<>>),
     KubeFile("yaml", PyNone, <<[name |-> "c1", user |-> "u1"]>>, <<>>),
     KubeFile("yaml", "c1", <<[name |-> "c1", user |-> "u1"]>>, <<>>)}
    \cup {KubeFile("yaml", "c1", <<[name |-> "c1", user |-> "u1"]>>,
                   <<[name |-> "u1", user |-> c]>>) : c \in CredentialSets}

\* The process starts: arguments parsed, environment and files as they are.
ConfInit ==
    /\ impl \in Impls
    /\ args_config \in (IF impl = "cli" THEN {<<>>} ELSE {<<DefaultConfigFile>>})
                          \cup {<<"arg.json">>}
    /\ env_config \in {<<>>, <<"env.json">>}
    /\ file \in Files
    /\ kubefile \in (IF file.conf.kubeconfig.val # <<>> THEN ClientKubeConfigs
                     ELSE {NoKubeFile})
    /\ filename = ""
    /\ conf = EmptyConf
    /\ prompts = <<>>
    /\ auth = NoAuth
    /\ endpoint = <<>>
    /\ servers = <<>>
    /\ pc = "config"
    /\ NoCall
    /\ Running
    /\ NoKubeConfig
    /\ NoHelpers

\* The loader finds the path, opens the file and parses it.
open_config ==
    /\ pc = "config"
    /\ filename' = config_filename(impl, args_config, env_config)
    /\ LET l == load_config(impl, args_config, file) IN
          CASE l.raised.type = "none" ->
                  /\ conf' = l.conf
                  /\ pc' = "prompt"
                  /\ UNCHANGED <<raised, exit_status, output>>
            [] l.raised.type = "ParserError" ->
                  /\ output' = [kind |-> "error", lines |-> l.raised.args]
                  /\ exit_status' = ParserErrorExit
                  /\ pc' = "exit"
                  /\ UNCHANGED <<conf, raised>>
            [] OTHER ->
                  /\ raised' = l.raised
                  /\ pc' = "raised"
                  /\ UNCHANGED <<conf, exit_status, output>>
    /\ UNCHANGED <<impl, endpoint, servers, callvars, kubevars, helpervars,
                   args_config,
                   env_config, file, prompts, auth, kubefile>>

\* The loader prompts for the next missing key and stores what the user types.
prompt ==
    /\ pc = "prompt"
    /\ next_prompt(impl, conf) # ""
    /\ \E a \in Answers(next_prompt(impl, conf)) :
          conf' = [conf EXCEPT ![next_prompt(impl, conf)] = JsonStr(a)]
    /\ prompts' = Append(prompts, next_prompt(impl, conf))
    /\ UNCHANGED <<impl, endpoint, servers, pc, raised, exit_status, output,
                   callvars, kubevars, helpervars,
                   args_config, env_config, file, filename,
                   auth, kubefile>>

\* Nothing is missing any more: the endpoint is made a list and the Client
\* is created from the configuration.
create_client ==
    /\ pc = "prompt"
    /\ next_prompt(impl, conf) = ""
    /\ LET c == [conf EXCEPT !.endpoint = endpoint_list(conf.endpoint)]
           r == Client_init(impl, c, kubefile)
       IN  /\ conf' = c
           /\ endpoint' = c.endpoint.val
           /\ IF r.raised.type = "none"
              THEN /\ servers' = r.endpoints
                   /\ auth' = r.auth
                   /\ pc' = "client"
                   /\ UNCHANGED raised
              ELSE /\ raised' = r.raised
                   /\ pc' = "raised"
                   /\ UNCHANGED <<servers, auth>>
    /\ UNCHANGED <<impl, exit_status, output, callvars, kubevars, helpervars,
                   args_config,
                   env_config, file, filename, prompts, kubefile>>

ConfNext ==
    \/ open_config
    \/ prompt
    \/ create_client
    \/ Exit

ConfSpec == ConfInit /\ [][ConfNext]_vars

(* ------------------------------ passhash ------------------------------ *)

\* The client, its configuration and its kubeconfig play no part.
NoClient ==
    /\ impl = "none"
    /\ endpoint = <<>>
    /\ servers = <<>>
    /\ NoCall
    /\ NoConfiguration
    /\ NoKubeConfig

PassInit ==
    /\ pw_args \in PassArgs
    /\ hashes = <<>>
    /\ rehashes = <<>>
    /\ NoHostAddress
    /\ NoOptions
    /\ NoTools
    /\ pc = "passhash"
    /\ Running
    /\ NoClient

\* One run of passhash: do_passhash returns a hash, or gensalt raises.
passhash ==
    /\ pc = "passhash"
    /\ Len(hashes) < MaxRuns
    /\ pw_io' = Append(pw_io, read_password(pw_args))
    /\ IF ValidRounds(pw_args.rounds)
       THEN /\ \E entropy \in Salts :
                  hashes' = Append(hashes, do_passhash(pw_args, entropy))
            /\ pc' = "hashed"
            /\ UNCHANGED raised
       ELSE /\ raised' = Exception("ValueError", << <<"Invalid rounds">> >>)
            /\ pc' = "raised"
            /\ UNCHANGED hashes
    /\ UNCHANGED <<impl, endpoint, servers, exit_status, output, callvars,
                   confvars, kubevars, pw_args, rehashes, hostvars, optvars, cmdvars,
                   sshvars>>

\* The hash is verified: the password the user gave is hashed again with
\* the hash as the salt.
verify ==
    /\ pc = "hashed"
    /\ rehashes' = Append(rehashes,
                          hashpw(IF pw_args.password # <<>> THEN pw_args.password[1]
                                 ELSE IF pw_args.file # <<>> THEN pw_args.file[1]
                                 ELSE pw_args.typed,
                                 hashes[Len(hashes)]))
    /\ pc' = "passhash"
    /\ UNCHANGED <<impl, endpoint, servers, raised, exit_status, output, callvars,
                   confvars, kubevars, pw_args, hashes, hostvars, optvars, toolvars>>

PassNext ==
    \/ passhash
    \/ verify
    \/ Exit

PassSpec == PassInit /\ [][PassNext]_vars

(* ----------------------------- kubeconfig ----------------------------- *)

KubeInit ==
    /\ kubefile \in KubeConfigs
    /\ pc = "kubeconfig"
    /\ impl = "none"
    /\ endpoint = <<>>
    /\ servers = <<>>
    /\ NoCall
    /\ Running
    /\ args_config = <<>>
    /\ env_config = <<>>
    /\ file = File("missing", EmptyConf)
    /\ filename = ""
    /\ conf = EmptyConf
    /\ prompts = <<>>
    /\ auth = NoAuth
    /\ NoKubeConfig
    /\ NoHelpers

\* KubeConfig(file_path): the file is opened and parsed.
open_kubeconfig ==
    /\ pc = "kubeconfig"
    /\ IF KubeConfig_init(kubefile).type = "none"
       THEN pc' = "opened" /\ UNCHANGED raised
       ELSE pc' = "raised" /\ raised' = KubeConfig_init(kubefile)
    /\ UNCHANGED <<impl, endpoint, servers, exit_status, output, callvars,
                   confvars, kubevars, helpervars>>

\* The property current_context is read.
read_current_context ==
    /\ pc = "opened"
    /\ kube_context' = current_context(kubefile)
    /\ pc' = "context"
    /\ UNCHANGED <<impl, endpoint, servers, raised, exit_status, output, callvars,
                   confvars, kube_user, helpervars>>

\* The property current_user is read.
read_current_user ==
    /\ pc = "context"
    /\ kube_user' = current_user(kubefile)
    /\ pc' = "user"
    /\ UNCHANGED <<impl, endpoint, servers, raised, exit_status, output, callvars,
                   confvars, kube_context, helpervars>>

KubeNext ==
    \/ open_kubeconfig
    \/ read_current_context
    \/ read_current_user
    \/ Exit

KubeSpec == KubeInit /\ [][KubeNext]_vars

(* ---------------------------- host_address ---------------------------- *)

\* The addresses of a command line are about to be converted.
HostInit ==
    /\ host_arg \in UNION {[1..k -> HostNames] : k \in 1..MaxAddresses}
    /\ resolver \in Resolvers
    /\ host_result = <<>>
    /\ pw_args = NoPassArgs
    /\ hashes = <<>>
    /\ rehashes = <<>>
    /\ NoOptions
    /\ NoTools
    /\ pc = "arguments"
    /\ Running
    /\ NoClient

\* argparse converts the next address with host_address.
convert_address ==
    /\ pc = "arguments"
    /\ Len(host_result) < Len(host_arg)
    /\ LET r == host_address(host_arg[Len(host_result) + 1], resolver) IN
          IF r.raised.type = "none"
          THEN /\ host_result' = Append(host_result, r.value)
               /\ UNCHANGED <<pc, raised>>
          ELSE /\ raised' = r.raised
               /\ pc' = "raised"
               /\ UNCHANGED host_result
    /\ UNCHANGED <<impl, endpoint, servers, exit_status, output, callvars,
                   confvars, kubevars, passvars, host_arg, resolver, optvars,
                   toolvars>>

\* argparse reports an ArgumentTypeError as a usage error; any other
\* exception leaves the process with a traceback.
argument_error ==
    /\ pc = "raised"
    /\ IF raised.type = "ArgumentTypeError"
       THEN /\ output' = [kind |-> "error", lines |-> raised.args]
            /\ exit_status' = ParserErrorExit
       ELSE /\ output' = [kind |-> "traceback", lines |-> raised.args]
            /\ exit_status' = FailureExit
    /\ pc' = "exit"
    /\ UNCHANGED <<impl, endpoint, servers, raised, callvars, confvars, kubevars,
                   helpervars>>

\* Every address is converted: the arguments are parsed.
arguments_parsed ==
    /\ pc = "arguments"
    /\ Len(host_result) = Len(host_arg)
    /\ pc' = "parsed"
    /\ UNCHANGED <<impl, endpoint, servers, raised, exit_status, output, callvars,
                   confvars, kubevars, helpervars>>

HostNext ==
    \/ convert_address
    \/ argument_error
    \/ arguments_parsed

HostSpec == HostInit /\ [][HostNext]_vars

(* -------------------------- assemble_options -------------------------- *)

OptInit ==
    /\ opt_items \in ItemLists
    /\ opt_result = Options({})
    /\ pw_args = NoPassArgs
    /\ hashes = <<>>
    /\ rehashes = <<>>
    /\ NoHostAddress
    /\ NoTools
    /\ pc = "options"
    /\ Running
    /\ NoClient

\* assemble_options(opt_items) returns or raises.
call_assemble_options ==
    /\ pc = "options"
    /\ opt_result' = assemble_options(opt_items)
    /\ raised' = assemble_options(opt_items).raised
    /\ pc' = IF assemble_options(opt_items).raised.type = "none"
             THEN "returned" ELSE "raised"
    /\ UNCHANGED <<impl, endpoint, servers, exit_status, output, callvars,
                   confvars, kubevars, passvars, hostvars, opt_items, toolvars>>

OptNext ==
    \/ call_assemble_options
    \/ Exit

OptSpec == OptInit /\ [][OptNext]_vars

(* ----------------------- commands and dispatch ------------------------ *)

CmdInit ==
    /\ argv \in {l \in CommandLines : l.cmd \in Parsers[l.subject]}
    /\ namespace = NoNamespace
    /\ client_method = ""
    /\ bound = "none"
    /\ pw_io = <<>>
    /\ NoSsh
    /\ pw_args = NoPassArgs
    /\ hashes = <<>>
    /\ rehashes = <<>>
    /\ NoHostAddress
    /\ NoOptions
    /\ pc = "argv"
    /\ Running
    /\ NoClient

\* args = parser.parse_args()
parse_command_line ==
    /\ pc = "argv"
    /\ namespace' = parse_args(argv)
    /\ pc' = "parsed"
    /\ UNCHANGED <<impl, endpoint, servers, raised, exit_status, output, callvars,
                   confvars, kubevars, passvars, hostvars, optvars, pw_io, sshvars,
                   argv,
                   client_method, bound>>

\* The dispatching callback of the subject builds the method name.
dispatch_subject_command ==
    /\ pc = "parsed"
    /\ client_method' = dispatch_command(argv.subject, namespace)
    /\ pc' = "dispatch"
    /\ UNCHANGED <<impl, endpoint, servers, raised, exit_status, output, callvars,
                   confvars, kubevars, passvars, hostvars, optvars, pw_io, sshvars,
                   argv,
                   namespace, bound>>

\* _dispatch looks the method up and calls it with the namespace.
bind_and_call ==
    /\ pc = "dispatch"
    /\ bound' = call_bound_method(client_method, namespace)
    /\ IF call_bound_method(client_method, namespace) = "called"
       THEN pc' = "called" /\ UNCHANGED raised
       ELSE /\ pc' = "raised"
            /\ raised' = Exception(call_bound_method(client_method, namespace), <<>>)
    /\ UNCHANGED <<impl, endpoint, servers, exit_status, output, callvars,
                   confvars, kubevars, passvars, hostvars, optvars, pw_io, sshvars,
                   argv,
                   namespace, client_method>>

CmdNext ==
    \/ parse_command_line
    \/ dispatch_subject_command
    \/ bind_and_call

CmdSpec == CmdInit /\ [][CmdNext]_vars

(* ------------------------------ host_ssh ------------------------------ *)

\* The state the program leaves alone while host_ssh runs.
beside_ssh == <<impl, endpoint, servers, exit_status, output, callvars, confvars,
                kubevars, passvars, hostvars, optvars, cmdvars, pw_io>>

\* host_ssh(hostname, extra_args) after result = self._get(path).
SshInit ==
    /\ creds \in CredsResults
    /\ ssh_argv \in SshArgvs
    /\ key_path = PyNone
    /\ disk = {}
    /\ ssh_calls = <<>>
    /\ NoCommand
    /\ pw_io = <<>>
    /\ pw_args = NoPassArgs
    /\ hashes = <<>>
    /\ rehashes = <<>>
    /\ NoHostAddress
    /\ NoOptions
    /\ pc = "creds"
    /\ Running
    /\ NoClient

\* result.get('ssh_priv_key') and result.get('remote_user'): a string has
\* no get; without both values the method prints that it cannot determine
\* key and user, and returns.
test_creds ==
    /\ pc = "creds"
    /\ IF creds.kind # "dict"
       THEN /\ raised' = Exception("AttributeError",
                              << <<"'str' object has no attribute 'get'">> >>)
            /\ pc' = "raised"
       ELSE /\ pc' = IF has_key_and_user(creds) THEN "mkstemp" ELSE "returned"
            /\ UNCHANGED raised
    /\ UNCHANGED <<beside_ssh, sshvars>>

\* fd, ssh_priv_key_path = tempfile.mkstemp(): an empty file is created and
\* its path kept, or mkstemp raises and there is neither.
mkstemp ==
    /\ pc = "mkstemp"
    /\ \/ /\ disk' = disk \cup {File_on_disk(TempPath, "")}
          /\ key_path' = TempPath
          /\ pc' = "write"
          /\ UNCHANGED raised
       \/ /\ raised' = Exception("OSError", << <<"No space left on device">> >>)
          /\ pc' = "finally"
          /\ UNCHANGED <<disk, key_path>>
    /\ UNCHANGED <<beside_ssh, creds, ssh_argv, ssh_calls>>

\* The key is decoded and written to the file; decoding or writing may
\* raise.
write_key ==
    /\ pc = "write"
    /\ LET d == decodestring(creds.ssh_priv_key) IN
          IF d.raised.type # "none"
          THEN /\ raised' = d.raised
               /\ pc' = "finally"
               /\ UNCHANGED disk
          ELSE \/ /\ disk' = {IF f.path = key_path
                                THEN File_on_disk(key_path, d.value) ELSE f :
                                f \in disk}
                  /\ pc' = "ssh"
                  /\ UNCHANGED raised
               \/ /\ raised' = Exception("IOError", << <<"No space left on device">> >>)
                  /\ pc' = "finally"
                  /\ UNCHANGED disk
    /\ UNCHANGED <<beside_ssh, creds, ssh_argv, key_path, ssh_calls>>

\* subprocess.call(ssh_cmd, shell=True) returns, or raises (the shell cannot
\* be started, the user interrupts).
call_ssh ==
    /\ pc = "ssh"
    /\ ssh_calls' = Append(ssh_calls, ssh_cmd(key_path, creds, ssh_argv, disk))
    /\ \/ UNCHANGED raised
       \/ raised' = Exception("OSError", << <<"Cannot allocate memory">> >>)
       \/ raised' = Exception("KeyboardInterrupt", <<>>)
    /\ pc' = "finally"
    /\ UNCHANGED <<beside_ssh, creds, ssh_argv, key_path, disk>>

\* The finally clause removes the key file if there is one; then host_ssh
\* returns or the exception goes on.
finally_clause ==
    /\ pc = "finally"
    /\ disk' = remove_keyfile(key_path, disk, raised)
    /\ pc' = IF raised.type = "none" THEN "returned" ELSE "raised"
    /\ UNCHANGED <<beside_ssh, raised, creds, ssh_argv, key_path, ssh_calls>>

SshNext ==
    \/ test_creds
    \/ mkstemp
    \/ write_key
    \/ call_ssh
    \/ finally_clause

SshSpec == SshInit /\ [][SshNext]_vars

(* ============================ properties ============================== *)

\* Every attempt of the current session request failed to connect.
AllFailed ==
    /\ attempts # <<>>
    /\ \A k \in 1..Len(attempts) : attempts[k].outcome = "ConnectionError"

\* C1: with N configured endpoints and a connection failure on every
\* attempt, the session request makes exactly N attempts and then fails with
\* NoMoreServersError: while fewer than N attempts have failed it is still
\* trying, after the N-th failure it has raised, and it raises in no other way.
C1_ExactlyNAttempts ==
    /\ AllFailed =>
          IF Len(attempts) = Len(servers)
          THEN pc \in {"raised", "exit"} /\ raised.type = "NoMoreServersError"
          ELSE Len(attempts) < Len(servers) /\ pc = "request" /\ raised.type = "none"
    /\ raised.type = "NoMoreServersError" =>
          AllFailed /\ Len(attempts) = Len(servers)

C1_Witness ==
    /\ raised.type = "NoMoreServersError"
    /\ Len(servers) >= 2
    /\ Len(attempts) = Len(servers)

\* The attempts made so far target the servers in list order, and every
\* attempt but the latest ended in a connection failure.
InListOrder ==
    /\ Len(attempts) <= Len(servers)
    /\ \A k \in 1..Len(attempts) :
          /\ attempts[k].url = servers[k] \o reqs[Len(reqs)].path
          /\ k < Len(attempts) => attempts[k].outcome = "ConnectionError"
          /\ attempts[k].outcome = "response" =>
                pc # "request" /\ resp = attempts[k].response

\* C2: endpoints are tried strictly in list order: attempt 1 targets
\* servers[0] + path, attempt k+1 is made only after attempt k ended in a
\* connection failure and targets servers[k] + path, and once an endpoint has
\* returned a response that response is the result and no further attempt of
\* this request is made.
C2_StrictListOrder ==
    /\ []InListOrder
    /\ [][Len(attempts') > Len(attempts) =>
            /\ Len(attempts') = Len(attempts) + 1
            /\ attempts = <<>> \/ attempts[Len(attempts)].outcome = "ConnectionError"
            /\ attempts'[Len(attempts')].url
                  = servers[Len(attempts) + 1] \o reqs[Len(reqs)].path]_vars

C2_Witness ==
    /\ pc = "response"
    /\ Len(attempts) = 2
    /\ servers[1] # servers[2]
    /\ attempts[1].outcome = "ConnectionError"
    /\ attempts[2].outcome = "response"

\* C3: a response with an HTTP error status (4xx or 5xx) does not trigger
\* failover: it is the latest attempt of its request, the request has ended,
\* and the response is what the session returned.
C3_NoFailoverOnErrorStatus ==
    \A k \in 1..Len(attempts) :
        (/\ attempts[k].outcome = "response"
         /\ attempts[k].response.status_code >= 400) =>
            /\ k = Len(attempts)
            /\ pc # "request"
            /\ resp = attempts[k].response

C3_Witness ==
    /\ pc = "response"
    /\ Len(servers) >= 2
    /\ Len(attempts) = 1
    /\ resp.status_code = 500

\* C4: when all endpoints failed to connect, the arguments of
\* NoMoreServersError are the endpoint list: one argument per configured
\* endpoint, in configured order, each the base URL that was tried (the
\* endpoint as the session holds it), and the dispatcher lists exactly these.
C4_ErrorNamesEveryEndpoint ==
    raised.type = "NoMoreServersError" =>
        /\ raised.args = servers
        /\ Len(raised.args) = Len(endpoint)
        /\ \A i \in 1..Len(raised.args) :
              /\ endpoint[i] \in {raised.args[i], raised.args[i] \o <<"/">>}
              /\ attempts[i].url = raised.args[i] \o reqs[Len(reqs)].path
        /\ pc = "exit" =>
              /\ output.kind = "no_servers"
              /\ SubSeq(output.lines, 2, Len(output.lines) - 1)
                    = [i \in 1..Len(endpoint) |-> <<"- ">> \o raised.args[i]]

C4_Witness ==
    /\ pc = "exit"
    /\ raised.type = "NoMoreServersError"
    /\ Len(endpoint) >= 2
    /\ endpoint[1] # endpoint[2]

CredentialMessages ==
    {<<"The provided credentials were incorrect.">>,
     <<"Username/Password was incorrect.">>}

\* C5: a 403 response makes the verb helper raise the credential error,
\* whatever the method and the verb (GET, PUT or DELETE), and that error is
\* what leaves the call.
C5_ForbiddenIsCredentialError ==
    helped.response.status_code = 403 =>
        /\ helped.outcome.raised.type = "ClientError"
        /\ helped.outcome.raised.args[1] \in CredentialMessages
        /\ pc \in {"raised", "exit"}
        /\ raised = helped.outcome.raised

C5_Witness ==
    /\ pc = "exit"
    /\ helped.response.status_code = 403
    /\ helped.request.method = "DELETE"
    /\ idx = 2
    /\ raised.args[1] \in CredentialMessages

\* The not-found result.
NotFound == Str(<<"No object found.">>)

\* C6: a 404 response to any client request is reported as "not found": the
\* verb helper of the client returns the not-found result instead of
\* raising a generic error.
C6_NotFoundIsReported ==
    helped.response.status_code = 404 =>
        /\ helped.outcome.raised.type = "none"
        /\ helped.outcome.value = NotFound

\* t occurs in s as a contiguous part.
Contains(s, t) ==
    \E i \in 1..(Len(s) - Len(t) + 1) : SubSeq(s, i, i + Len(t) - 1) = t

Is2xx(status_code) == status_code >= 200 /\ status_code <= 299

\* C7: _handle_status classifies every response status into exactly one
\* outcome: 204 gives 'No instance'; any other 2xx with a non-empty JSON body
\* gives the body; any other 2xx without one gives 'Created <last path
\* segment>' for 201 and 'Success' otherwise; 403 raises the credential
\* error; 404 gives the not-found result; every other status raises a
\* ClientError whose message contains the method, the path and the status.
C7_HandleStatusClassification ==
    (impl = "cli" /\ helped # NotHelped) =>
        LET r == helped.response
            o == helped.outcome
            q == helped.request
            c == r.status_code
        IN  CASE c = 204 -> o = Returns(Str(<<"No instance">>))
              [] Is2xx(c) /\ c # 204 /\ r.body \notin {"", "{}"} ->
                    o = Returns(Json(r.body))
              [] Is2xx(c) /\ c # 204 /\ r.body \in {"", "{}"} ->
                    IF c = 201
                    THEN o = Returns(ListOfStr(<<"Created ", q.path[Len(q.path)]>>))
                    ELSE o = Returns(Str(<<"Success">>))
              [] c = 403 ->
                    o = Raises("ClientError",
                               <<"The provided credentials were incorrect.">>)
              [] c = 404 -> o = Returns(NotFound)
              [] OTHER ->
                    /\ o.raised.type = "ClientError"
                    /\ Contains(o.raised.args[1], <<q.method>>)
                    /\ Contains(o.raised.args[1], q.path)
                    /\ Contains(o.raised.args[1], <<ToString(c)>>)

C7_Witness ==
    /\ impl = "cli"
    /\ method = "cluster_deploy_start"
    /\ helped.response.status_code = 201
    /\ helped.outcome.value = ListOfStr(<<"Created ", "deploy">>)

\* The verb helper raised the generic request failure.
GenericFailure ==
    /\ helped.outcome.raised.type = "ClientError"
    /\ helped.outcome.raised.args[1] \notin CredentialMessages

\* C8: a generic request failure is reported only for a non-2xx status other
\* than 403 and 404: in both clients a response with any 2xx status yields a
\* value and no exception.
C8_Any2xxIsSuccess ==
    helped # NotHelped =>
        /\ Is2xx(helped.response.status_code) => helped.outcome.raised.type = "none"
        /\ GenericFailure =>
              /\ ~Is2xx(helped.response.status_code)
              /\ helped.response.status_code \notin {403, 404}

\* The call met one of the error categories: all endpoints exhausted, or a
\* response with a non-2xx status (403, 404 or any other).
ErrorCategory ==
    \/ raised.type = "NoMoreServersError"
    \/ \E k \in 1..Len(statuses) : ~Is2xx(statuses[k])

\* C9 as stated: every error category ends the dispatch with a formatted
\* message and a non-zero exit, never with normal output and exit status zero.
C9_EveryErrorExitsNonZero ==
    (pc = "exit" /\ ErrorCategory) =>
        /\ exit_status # 0
        /\ output.kind \in {"no_servers", "error"}

\* C9 as the code has it: exhaustion of the endpoints, 403 and any non-2xx
\* status other than 404 end the dispatch with a formatted message and a
\* non-zero exit.  A 404 does so only in client_script; in cli it is a result:
\* the dispatch prints 'No object found.' as normal output and exits with
\* status zero (host_ssh, which cannot use the result, ends in a traceback).
C9_ErrorsButNotFoundExitNonZero ==
    pc = "exit" =>
        /\ raised.type = "NoMoreServersError" =>
              /\ exit_status = FailureExit
              /\ output.kind = "no_servers"
        /\ (\E k \in 1..Len(statuses) :
                ~Is2xx(statuses[k]) /\ (statuses[k] # 404 \/ impl = "client_script")) =>
              /\ exit_status = ParserErrorExit
              /\ output = [kind |-> "error", lines |-> raised.args]
        /\ (/\ impl = "cli"
            /\ \E k \in 1..Len(statuses) : statuses[k] = 404
            /\ \A k \in 1..Len(statuses) : Is2xx(statuses[k]) \/ statuses[k] = 404
            /\ raised.type \notin {"NoMoreServersError", "RequestException"}) =>
              IF method = "host_ssh"
              THEN exit_status = FailureExit /\ output.kind = "traceback"
              ELSE /\ exit_status = 0
                   /\ output.kind = "result"
                   /\ \E i \in 1..Len(output.lines) : output.lines[i] = NotFound.val

C9_Witness ==
    /\ pc = "exit"
    /\ impl = "cli"
    /\ statuses = <<404, 500>>
    /\ exit_status = ParserErrorExit

\* C10: no retries at the resource-client layer.  A call on a single
\* resource issues exactly one session request whatever the response; a bulk
\* delete issues one DELETE per name, in the order given, and when every
\* response was successful it returns one result per name in that order.
C10_NoRetries ==
    pc # "start" =>
        LET spec == MethodsOf(impl)[method] IN
        /\ spec.kind # "bulk" => Len(reqs) = 1 /\ Len(statuses) <= 1
        /\ spec.kind = "bulk" =>
              /\ Len(reqs) <= Len(names)
              /\ \A k \in 1..Len(reqs) :
                    reqs[k] = [method |-> "DELETE",
                               path |-> Api \o <<spec.res, "/", names[k]>>]
        /\ (/\ spec.kind = "bulk"
            /\ pc \in {"returned", "exit"}
            /\ raised.type = "none"
            /\ \A k \in 1..Len(statuses) : Is2xx(statuses[k])) =>
              /\ Len(reqs) = Len(names)
              /\ Len(statuses) = Len(names)
              /\ Len(results) = Len(names)
              /\ \A k \in 1..Len(names) :
                    /\ statuses[k] = 204 <=> results[k] = Str(<<"No instance">>)
                    /\ (statuses[k] = 201 /\ results[k].type = "list") =>
                          results[k] = ListOfStr(<<"Created ", names[k]>>)

C10_Witness ==
    /\ pc = "exit"
    /\ method = "host_delete"
    /\ Len(names) >= 2
    /\ Len(results) = Len(names)
    /\ Len(statuses) = Len(names)
    /\ statuses[1] = 201 /\ statuses[2] = 204
    /\ results[1] = ListOfStr(<<"Created ", names[1]>>)

\* The resource names of the REST interface as the specification gives them.
SpecResources == {"cluster", "host", "network", "container_managers"}

\* '/api/v0/<resource>[/<id>][/<subresource>]'
ResourcePath(path) ==
    /\ Len(path) \in {6, 8, 10}
    /\ SubSeq(path, 1, 5) = <<"/", "api", "/", "v0", "/">>
    /\ path[6] \in SpecResources
    /\ \A k \in 7..Len(path) : (path[k] = "/") <=> (k % 2 = 1)

\* The collection paths of the list operations.
CollectionPaths ==
    {<<"/", "api", "/", "v0", "/", c>> : c \in {"clusters", "hosts", "networks"}}

\* The operations of both clients by what they do.
ReadOperations ==
    {"cluster_get", "cluster_list", "cluster_deploy_status",
     "cluster_restart_status", "cluster_upgrade_status",
     "container_manager_get", "container_manager_list", "host_get",
     "host_list", "host_status", "host_ssh", "network_get", "network_list",
     "get_cluster", "get_restart", "get_upgrade", "list_clusters", "list_hosts"}

CreateOperations ==
    {"cluster_create", "cluster_deploy_start", "cluster_restart_start",
     "cluster_upgrade_start", "container_manager_create", "host_create",
     "network_create", "create_cluster", "create_restart", "create_upgrade"}

DeleteOperations ==
    {"cluster_delete", "container_manager_delete", "host_delete",
     "network_delete"}

VerbOfOperation(m) ==
    CASE m \in ReadOperations -> "GET"
      [] m \in CreateOperations -> "PUT"
      [] m \in DeleteOperations -> "DELETE"
      [] OTHER -> "unknown"

\* C11 as stated: every request of a Client method uses GET, PUT or DELETE
\* and a path '/api/v0/<resource>[/<id>][/<subresource>]' whose resource is
\* cluster, host, network or container_managers; reads use GET, create and
\* start operations PUT, deletes DELETE.
C11_RestInterface ==
    \A k \in 1..Len(reqs) :
        /\ reqs[k].method \in {"GET", "PUT", "DELETE"}
        /\ reqs[k].method = VerbOfOperation(method)
        /\ ResourcePath(reqs[k].path)

\* C11 as the code has it: the verbs are as stated; the path has the stated
\* form except for the list operations on clusters, hosts and networks
\* without a cluster name, which request the collections '/api/v0/clusters',
\* '/api/v0/hosts' and '/api/v0/networks'.
C11_RestInterfaceWithCollections ==
    \A k \in 1..Len(reqs) :
        /\ reqs[k].method \in {"GET", "PUT", "DELETE"}
        /\ reqs[k].method = VerbOfOperation(method)
        /\ IF method \in {"cluster_list", "host_list", "network_list",
                          "list_clusters", "list_hosts"} /\ names = <<>>
           THEN reqs[k].path \in CollectionPaths
           ELSE ResourcePath(reqs[k].path)

C11_Witness ==
    /\ pc = "exit"
    /\ method = "network_delete"
    /\ Len(reqs) = 2
    /\ reqs[2] = [method |-> "DELETE",
                  path |-> <<"/", "api", "/", "v0", "/", "network", "/", "n2">>]

\* The configuration has been handed to the Client: the Client was created,
\* or its creation raised.
HandedToClient == pc = "client" \/ raised.type \notin {"none", "AttributeError"}

\* C12: the key endpoint may be a string or a list.  The value handed to
\* the Client is always a list: a string of the file becomes the list of
\* that one string, a prompted endpoint the list of what was typed, a list
\* of the file is kept as it is.  The Client created uses one base URL per
\* endpoint, in the same order: the endpoint without its last character when
\* that is '/', the endpoint itself otherwise.
C12_EndpointIsAList ==
    /\ HandedToClient =>
          /\ conf.endpoint.type = "list"
          /\ endpoint = conf.endpoint.val
          /\ file.conf.endpoint.type = "str" =>
                conf.endpoint = JsonList(<<file.conf.endpoint.val>>)
          /\ file.conf.endpoint.type = "list" => conf.endpoint = file.conf.endpoint
          /\ file.conf.endpoint.type = "absent" =>
                /\ "endpoint" \in {prompts[k] : k \in 1..Len(prompts)}
                /\ Len(conf.endpoint.val) = 1
                /\ conf.endpoint.val[1] \in Answers("endpoint")
    /\ pc = "client" =>
          /\ Len(servers) = Len(endpoint)
          /\ \A k \in 1..Len(endpoint) :
                IF endpoint[k][Len(endpoint[k])] = "/"
                THEN endpoint[k] = servers[k] \o <<"/">>
                ELSE endpoint[k] = servers[k]

C12_Witness ==
    /\ pc = "client"
    /\ file.conf.endpoint = JsonStr(<<"http://h2", "/", "/">>)
    /\ endpoint = << <<"http://h2", "/", "/">> >>
    /\ servers = << <<"http://h2", "/">> >>

\* The keys the loader prompted for.
Prompted == {prompts[k] : k \in 1..Len(prompts)}

\* C13: the loader prompts for exactly the missing fields.  An unreadable or
\* unparsable file is an error and no client is created; a file that does
\* not exist is no error; and when the configuration reaches the Client,
\* endpoint was prompted for if and only if the loaded configuration lacked
\* it, username and password each if and only if the loaded configuration
\* lacked it and had no key kubeconfig (a file that does not exist counting
\* as the empty configuration, so that everything was prompted for).
C13_PromptsExactlyMissing ==
    pc # "config" =>
        /\ file.kind \in {"unreadable", "unparsable"} =>
              /\ pc \in {"raised", "exit"}
              /\ prompts = <<>>
              /\ servers = <<>>
        /\ file.kind \in {"missing", "json"} =>
              ~(pc = "exit" /\ output.kind = "error")
        /\ (file.kind \in {"missing", "json"} /\ HandedToClient) =>
              /\ "endpoint" \in Prompted <=> file.conf.endpoint.type = "absent"
              /\ "username" \in Prompted <=>
                    /\ file.conf.username.type = "absent"
                    /\ file.conf.kubeconfig.type = "absent"
              /\ "password" \in Prompted <=>
                    /\ file.conf.password.type = "absent"
                    /\ file.conf.kubeconfig.type = "absent"

\* C14: the path opened is the config argument when the parsed arguments
\* carry one, otherwise the value of COMMCTL_CONFIG when it is set, otherwise
\* the default path; and a file that cannot be opened for reading is reported
\* by an error message that names the path that was opened.
C14_ConfigPathAndMessage ==
    pc # "config" =>
        /\ filename = IF args_config # <<>> THEN args_config[1]
                      ELSE IF env_config # <<>> THEN env_config[1]
                      ELSE DefaultConfigFile
        /\ file.kind = "unreadable" =>
              /\ pc = "exit"
              /\ output.kind = "error"
              /\ Contains(output.lines[1], <<filename>>)

\* C15: a hash passhash produces verifies against the original password:
\* for every password and round count, hashing the password again with the
\* produced hash as the salt yields the produced hash, although two runs on
\* the same password and round count may produce different hashes.
C15_HashVerifies ==
    /\ Len(rehashes) <= Len(hashes)
    /\ \A k \in 1..Len(rehashes) : rehashes[k] = hashes[k]
    /\ \A k \in 1..Len(hashes) : hashes[k].rounds = pw_args.rounds

C15_Witness ==
    /\ Len(hashes) = 2
    /\ Len(rehashes) = 2
    /\ hashes[1] # hashes[2]
    /\ pw_args.password = <<>>
    /\ pw_args.file = <<"filepass\n">>
    /\ rehashes[2] = hashes[2]

\* The positions of the contexts with the name of current-context.
CurrentContexts ==
    {i \in 1..Len(kubefile.contexts) :
        kubefile.contexts[i].name = kubefile.current_context}

\* C16: current_context returns the first entry of contexts whose name
\* equals current-context, and raises KubeConfigNoContextError when
\* current-context is unset or no context has that name.
C16_CurrentContext ==
    pc \in {"context", "user"} =>
        IF kubefile.current_context = PyNone \/ CurrentContexts = {}
        THEN /\ kube_context.raised.type = "KubeConfigNoContextError"
             /\ kube_context.value = NoContext
        ELSE /\ kube_context.raised.type = "none"
             /\ \E i \in CurrentContexts :
                   /\ kube_context.value = kubefile.contexts[i]
                   /\ \A j \in CurrentContexts : i <= j

C16_Witness ==
    /\ pc = "context"
    /\ kubefile.current_context = "c1"
    /\ Len(kubefile.contexts) = 2
    /\ kubefile.contexts[1].name = "c1"
    /\ kubefile.contexts[2].name = "c1"
    /\ kubefile.contexts[1].user # kubefile.contexts[2].user
    /\ kube_context.value = kubefile.contexts[1]

\* The positions of the users with the name the context in force refers to.
CurrentUsers ==
    {i \in 1..Len(kubefile.users) :
        kubefile.users[i].name = kube_context.value.user}

\* C17: current_user returns the first user entry whose name equals the
\* current context's user, typed by the first credential kind it has, in
\* the order token, username and password, client certificate and key: with
\* a token the type is 'token' and the header a Bearer authorization; with
\* username and password and no token the type is 'password' and the header
\* a Basic authorization; with none of the kinds KubeConfigUserTypeError is
\* raised; when no user has the name KubeConfigNoUserError is raised.
C17_CurrentUser ==
    (pc = "user" /\ kube_context.raised.type = "none") =>
        IF CurrentUsers = {}
        THEN kube_user.raised.type = "KubeConfigNoUserError"
        ELSE LET i == CHOOSE i \in CurrentUsers : \A j \in CurrentUsers : i <= j
                 c == kubefile.users[i].user
                 u == kube_user.value
             IN  CASE c.token # "" ->
                        /\ kube_user.raised.type = "none"
                        /\ u.name = kubefile.users[i].name
                        /\ u.type = "token"
                        /\ u.token = c.token
                        /\ u.auth_headers
                              = << <<"Authorization", "Bearer " \o c.token>> >>
                   [] c.token = "" /\ c.username # "" /\ c.password # "" ->
                        /\ kube_user.raised.type = "none"
                        /\ u.name = kubefile.users[i].name
                        /\ u.type = "password"
                        /\ u.username = c.username /\ u.password = c.password
                        /\ u.auth_headers
                              = << <<"Authorization",
                                     "Basic base64(" \o c.username \o ":"
                                         \o c.password \o ")\n">> >>
                   [] OTHER ->
                        IF c.certificate # "" /\ c.key # ""
                        THEN /\ kube_user.raised.type = "none"
                             /\ u.type = "client-certificate"
                        ELSE kube_user.raised.type = "KubeConfigUserTypeError"

C17_Witness ==
    /\ pc = "user"
    /\ Len(kubefile.users) = 2
    /\ kubefile.users[1] = [name |-> "u1", user |-> Credentials("t0k", "bob", "pw", "", "")]
    /\ kubefile.users[2] = [name |-> "u1", user |-> Credentials("", "bob", "pw", "", "")]
    /\ kube_user.value.type = "token"

\* C18: host_address returns the resolver's result for its argument when
\* the resolution succeeds, and raises argparse.ArgumentTypeError, never the
\* resolver's own error, whenever the resolution fails: the addresses
\* converted so far are the resolver's results for the arguments in order,
\* and the conversion stops with ArgumentTypeError, naming the argument, at
\* the first argument that does not resolve.
C18_HostAddress ==
    /\ Len(host_result) <= Len(host_arg)
    /\ \A k \in 1..Len(host_result) :
          /\ resolver[host_arg[k]].kind = "address"
          /\ host_result[k] = resolver[host_arg[k]].value
    /\ pc = "parsed" => Len(host_result) = Len(host_arg)
    /\ pc = "arguments" => raised.type = "none"
    /\ pc \in {"raised", "exit"} =>
          /\ Len(host_result) < Len(host_arg)
          /\ resolver[host_arg[Len(host_result) + 1]].kind = "gaierror"
          /\ raised.type = "ArgumentTypeError"
          /\ raised.args[1][1] = host_arg[Len(host_result) + 1]

C18_Witness ==
    /\ pc = "exit"
    /\ host_arg = <<"192.168.0.1", "example.org">>
    /\ host_result = <<"10.0.0.1">>
    /\ resolver["example.org"].kind = "gaierror"
    /\ raised.type = "ArgumentTypeError"
    /\ exit_status = ParserErrorExit

\* The pairs a serialized JSON object describes.
Described(text) ==
    IF text = <<"{", "a", ":", "b", ",", "c", ":", "d", "}">>
    THEN {<<"a", "b">>, <<"c", "d">>}
    ELSE IF text = <<"{", "e", ":", "f", "}">> THEN {<<"e", "f">>}
    ELSE {}

IsObjectText(text) == text[1] = "{"

\* C19: assemble_options turns a list of 'key=value' items into the dict of
\* those pairs, a list of serialized JSON objects into the dict they
\* describe, and raises TypeError when an item is a JSON value that is not
\* an object (true, null, a list).
C19_AssembleOptions ==
    pc # "options" =>
        /\ (\A k \in 1..Len(opt_items) : opt_items[k] \in PairItems) =>
              /\ opt_result.raised.type = "none"
              /\ opt_result.value
                    = {<<opt_items[k][1], opt_items[k][3]>> : k \in 1..Len(opt_items)}
        /\ (\A k \in 1..Len(opt_items) : IsObjectText(opt_items[k])) =>
              /\ opt_result.raised.type = "none"
              /\ opt_result.value
                    = UNION {Described(opt_items[k]) : k \in 1..Len(opt_items)}
        /\ (\E k \in 1..Len(opt_items) :
                opt_items[k] \in {<<"true">>, <<"null">>,
                                  <<"[", "{", "a", ":", "b", "}", "]">>}) =>
              /\ opt_result.raised.type = "TypeError"
              /\ raised.type = "TypeError"

C19_Witness ==
    /\ pc = "returned"
    /\ opt_items = << <<"{", "a", ":", "b", ",", "c", ":", "d", "}">>,
                      <<"{", "e", ":", "f", "}">> >>
    /\ opt_result.value = {<<"a", "b">>, <<"c", "d">>, <<"e", "f">>}

\* C20: the failover session keeps no state between requests.  The endpoint
\* list of the session is never modified once the Client has set it, and
\* every session request, each request of a bulk delete included, starts at
\* the first endpoint whatever endpoints failed or answered before: before
\* its first attempt the loop index is 0, and its first attempt targets
\* servers[0] + path.
C20_NoStateBetweenRequests ==
    /\ [](/\ (pc = "request" /\ attempts = <<>>) => x = 0
          /\ attempts # <<>> =>
                attempts[1].url = servers[1] \o reqs[Len(reqs)].path
          /\ pc \notin {"start", "config", "prompt"} =>
                servers = Client_endpoints(endpoint))
    /\ [][/\ pc # "start" => servers' = servers
          /\ Len(reqs') > Len(reqs) => x' = 0 /\ attempts' = <<>>]_vars

C20_Witness ==
    /\ pc = "response"
    /\ method = "cluster_delete"
    /\ idx = 2
    /\ Len(servers) = 2
    /\ helped.url = servers[2] \o reqs[1].path
    /\ Len(attempts) = 1
    /\ attempts[1].url = servers[1] \o reqs[2].path

\* The attempts made so far contact the list positions 1, 2, ... once each,
\* and all but the latest failed to connect.
EachPositionOnce ==
    /\ Len(attempts) <= Len(servers)
    /\ \A k \in 1..Len(attempts) :
          /\ attempts[k].url = servers[k] \o reqs[1].path
          /\ k < Len(attempts) => attempts[k].outcome = "ConnectionError"

\* The request ended with the response of the first endpoint that did not
\* fail to connect.
EndedInResponse ==
    /\ pc = "response"
    /\ raised.type = "none"
    /\ attempts # <<>>
    /\ attempts[Len(attempts)].outcome = "response"
    /\ resp = attempts[Len(attempts)].response

\* The request ended with NoMoreServersError, every endpoint having failed
\* to connect.
EndedInNoMoreServers ==
    /\ pc = "raised"
    /\ raised.type = "NoMoreServersError"
    /\ Len(attempts) = Len(servers)
    /\ attempts[Len(attempts)].outcome = "ConnectionError"

\* The request ended with the exception of an attempt that was no
\* connection error.
EndedInOtherException ==
    /\ pc = "raised"
    /\ raised.type = "RequestException"
    /\ attempts # <<>>
    /\ attempts[Len(attempts)].outcome = "ReadTimeout"

\* C21 as stated: a request terminates after at most N attempts, contacts
\* each list position at most once, and with a non-empty list ends either in
\* the response of the first endpoint that did not fail to connect or in
\* NoMoreServersError.
C21_TwoOutcomes ==
    /\ <>(pc # "request")
    /\ [](/\ EachPositionOnce
          /\ (pc # "request" /\ servers # <<>>) =>
                (EndedInResponse \/ EndedInNoMoreServers))

\* C21 as the code has it: a request terminates after at most N attempts,
\* contacts each list position at most once, and with a non-empty list ends
\* in exactly one of three outcomes: the response of the first endpoint that
\* did not fail to connect, NoMoreServersError after N connection failures,
\* or the exception of an attempt that failed otherwise than to connect.
C21_BoundedTermination ==
    /\ <>(pc # "request")
    /\ [](/\ EachPositionOnce
          /\ (pc # "request" /\ servers # <<>>) =>
                \/ EndedInResponse /\ ~EndedInNoMoreServers /\ ~EndedInOtherException
                \/ EndedInNoMoreServers /\ ~EndedInResponse /\ ~EndedInOtherException
                \/ EndedInOtherException /\ ~EndedInResponse /\ ~EndedInNoMoreServers)

C21_Witness ==
    /\ pc = "response"
    /\ Len(servers) = 2
    /\ Len(attempts) = 2
    /\ attempts[1].outcome = "ConnectionError"
    /\ resp.status_code = 404
    /\ reqs[1].method = "DELETE"

C23_EveryCommandHasItsMethod ==
    /\ pc \in {"dispatch", "called", "raised"} /\ argv # NoArgv =>
          /\ client_method =
                argv.subject \o "_" \o argv.cmd.command
                \o (IF argv.cmd.subcommand = "" THEN "" ELSE "_" \o argv.cmd.subcommand)
          /\ client_method \in DOMAIN CliMethods
          /\ Signatures[client_method].parameters \subseteq namespace.keys
          /\ Signatures[client_method].lookups \subseteq namespace.keys
    /\ argv # NoArgv => pc # "raised"
    /\ pc = "called" => bound = "called"

C23_Witness ==
    /\ pc = "called"
    /\ bound = "called"
    /\ argv.subject = "cluster"
    /\ client_method = "cluster_deploy_start"
    /\ namespace.keys = {"name", "version", "command", "subcommand", "_class", "func"}

\* The configuration handed to Client has a kubeconfig entry that is not
\* empty.
HasKubeConfig == conf.kubeconfig.type # "absent" /\ conf.kubeconfig.val # <<>>

\* C24: a Client of cli.py created from a configuration with a non-empty
\* kubeconfig entry has the authentication headers of the kubeconfig's
\* current user and no username/password authentication, whether or not the
\* configuration holds a username and a password, and its constructor never
\* fails for want of those keys; username/password authentication is set
\* only when the configuration has no kubeconfig entry to use.
C24_KubeConfigIsFavoured ==
    impl = "cli" =>
        /\ (pc = "client" /\ HasKubeConfig) =>
              /\ auth.kind = "kubeconfig"
              /\ auth.headers = current_user(kubefile).value.auth_headers
              /\ auth.username = <<>>
              /\ auth.password = <<>>
        /\ (pc = "raised" /\ HasKubeConfig /\ items(conf.endpoint) # <<>>) =>
              raised.type # "KeyError"
        /\ (pc = "client" /\ auth.kind = "basic") =>
              /\ ~HasKubeConfig
              /\ auth.username = conf.username.val
              /\ auth.password = conf.password.val

C24_Witness ==
    /\ impl = "cli"
    /\ pc = "client"
    /\ HasKubeConfig
    /\ conf.username.type # "absent"
    /\ conf.password.type # "absent"
    /\ auth.kind = "kubeconfig"
    /\ auth.headers # <<>>

\* The exceptions of kubeconfig.py; none of them is a ClientError.
KubeConfigErrors ==
    {"KubeConfigInvalidFileError", "KubeConfigNoContextError",
     "KubeConfigUserTypeError", "KubeConfigNoUserError"}

\* C29: when the constructor of cli's Client fails over its kubeconfig, it
\* raises InvalidConfiguration exactly when the current context names a user
\* the file does not have; a missing or unmatched current context, a user of
\* unknown type and an invalid file leave it as the kubeconfig's own
\* exceptions, which are no ClientError, and the process ends with a
\* traceback rather than in one of the dispatcher's error branches.
C29_OnlyNoUserIsConverted ==
    (impl = "cli" /\ HasKubeConfig /\ items(conf.endpoint) # <<>>) =>
        /\ pc = "raised" =>
              /\ raised.type = "InvalidConfiguration" <=>
                    /\ KubeConfig_init(kubefile).type = "none"
                    /\ current_user(kubefile).raised.type = "KubeConfigNoUserError"
              /\ KubeConfig_init(kubefile).type = "KubeConfigInvalidFileError" =>
                    raised.type = "KubeConfigInvalidFileError"
              /\ (/\ KubeConfig_init(kubefile).type = "none"
                  /\ current_user(kubefile).raised.type
                        \in {"KubeConfigNoContextError", "KubeConfigUserTypeError"}) =>
                    raised = current_user(kubefile).raised
              /\ raised.type # "KubeConfigNoUserError"
              /\ raised.type \in KubeConfigErrors => ~IsClientError(raised)
        /\ (pc = "exit" /\ raised.type \in KubeConfigErrors) =>
              /\ exit_status = FailureExit
              /\ output.kind = "traceback"

C29_Witness ==
    /\ impl = "cli"
    /\ HasKubeConfig
    /\ pc = "exit"
    /\ raised.type = "KubeConfigUserTypeError"
    /\ output.kind = "traceback"

\* C25: every run of do_passhash takes the password from exactly one source:
\* the --password argument when it was given; otherwise the file, which is
\* read only then; otherwise the prompt, which is shown only when neither
\* an argument nor a file was given; and the password hashed is the one that
\* source gave.
C25_OnePasswordSource ==
    /\ Len(hashes) <= Len(pw_io)
    /\ \A k \in 1..Len(pw_io) :
          /\ pw_io[k].source \in {"argument", "file", "prompt"}
          /\ pw_io[k].source = "argument" <=> pw_args.password # <<>>
          /\ pw_io[k].source = "file" <=> (pw_args.password = <<>> /\ pw_args.file # <<>>)
          /\ pw_io[k].source = "prompt" <=> (pw_args.password = <<>> /\ pw_args.file = <<>>)
          /\ pw_io[k].file_read <=> pw_io[k].source = "file"
          /\ pw_io[k].prompted <=> pw_io[k].source = "prompt"
          /\ pw_io[k].pw = (CASE pw_args.password # <<>> -> pw_args.password[1]
                              [] pw_args.password = <<>> /\ pw_args.file # <<>> -> pw_args.file[1]
                              [] OTHER -> pw_args.typed)
          /\ k <= Len(hashes) => hashes[k].digest[1] = pw_io[k].pw

C25_Witness ==
    /\ Len(hashes) = 1
    /\ Len(pw_io) = 1
    /\ pw_args.password = <<"">>
    /\ pw_args.file = <<"filepass\n">>
    /\ pw_io[1].source = "argument"
    /\ ~pw_io[1].file_read
    /\ ~pw_io[1].prompted
    /\ hashes[1].digest[1] = ""

\* A bulk delete of cli's Client is under way or over.
BulkDelete ==
    /\ pc # "start"
    /\ impl = "cli"
    /\ method \in DOMAIN CliMethods
    /\ CliMethods[method].kind = "bulk"

\* C26: a bulk delete stops at the first name whose request raises (403, a
\* status other than 2xx and 404, exhaustion of the endpoints): the name that
\* failed is the last one a DELETE was issued for, every request made is a
\* DELETE (nothing undoes the deletions done), and the dispatch prints the
\* error and none of the results collected for the earlier names; a 404 is
\* recorded as the not-found result and the loop goes on to the next name.
C26_BulkDeleteStopsAtFirstError ==
    BulkDelete =>
        /\ Len(reqs) <= Len(names)
        /\ Len(results) <= Len(statuses)
        /\ Len(statuses) <= Len(reqs)
        /\ \A k \in 1..Len(reqs) :
              reqs[k] = [method |-> "DELETE",
                         path |-> Api \o <<CliMethods[method].res, "/", names[k]>>]
        /\ \A k \in 1..Len(statuses) :
              /\ (statuses[k] = 403 \/ ~(Is2xx(statuses[k]) \/ statuses[k] = 404)) =>
                    /\ raised.type = "ClientError"
                    /\ k = Len(reqs)
                    /\ Len(results) = k - 1
              /\ statuses[k] = 404 =>
                    /\ Len(results) >= k
                    /\ results[k] = NotFound
                    /\ k < Len(names) => Len(reqs) > k
        /\ raised.type # "none" =>
              /\ pc \in {"raised", "exit"}
              /\ Len(results) = Len(reqs) - 1
              /\ \A k \in 1..Len(results) : Is2xx(statuses[k]) \/ statuses[k] = 404
        /\ (pc = "exit" /\ raised.type # "none") =>
              /\ output.kind \in {"error", "no_servers"}
              /\ output = dispatch_output(raised, <<>>)
              /\ exit_status # 0
        /\ pc = "returned" => Len(results) = Len(names)

C26_Witness ==
    /\ BulkDelete
    /\ pc = "exit"
    /\ method = "cluster_delete"
    /\ Len(names) = 2
    /\ statuses = <<500>>
    /\ Len(reqs) = 1
    /\ results = <<>>
    /\ output.kind = "error"

\* C27: only a connection error makes the session go on to the next
\* endpoint.  An attempt that ends in another request exception (a read
\* timeout) is the last attempt of its request: the exception leaves
\* MultiServerSession.request as it is, no later endpoint is contacted, and
\* NoMoreServersError is not raised.
C27_OnlyConnectionErrorFailsOver ==
    \A k \in 1..Len(attempts) :
        /\ k < Len(attempts) => attempts[k].outcome = "ConnectionError"
        /\ attempts[k].outcome = "ReadTimeout" =>
              /\ k = Len(attempts)
              /\ pc \in {"raised", "exit"}
              /\ raised.type = "RequestException"
              /\ raised.type # "NoMoreServersError"
              /\ x = k - 1

C27_Witness ==
    /\ Len(servers) = 2
    /\ Len(attempts) = 1
    /\ attempts[1].outcome = "ReadTimeout"
    /\ attempts[1].url = servers[1] \o reqs[Len(reqs)].path
    /\ pc = "raised"
    /\ raised.type = "RequestException"

\* C28: with no endpoints a request makes no attempt and returns None, and
\* NoMoreServersError is not raised; whenever NoMoreServersError is raised, at
\* least one attempt was made and every attempt made failed to connect.
C28_EmptyListReturnsNone ==
    /\ (servers = <<>> /\ pc # "request") =>
          /\ attempts = <<>>
          /\ pc = "response"
          /\ resp = NoResponse
          /\ raised.type = "none"
    /\ raised.type = "NoMoreServersError" =>
          /\ Len(attempts) >= 1
          /\ \A k \in 1..Len(attempts) : attempts[k].outcome = "ConnectionError"

C28_Witness ==
    /\ servers = <<>>
    /\ pc = "response"
    /\ attempts = <<>>
    /\ resp = NoResponse
    /\ raised.type = "none"
    /\ reqs # <<>>

\* C30: host_ssh never leaves the private key on disk.  ssh is invoked only
\* when the credentials hold both ssh_priv_key and remote_user; the key file
\* is then on disk, with the key in it, when ssh is called, and it is gone
\* when host_ssh is left, by return or by an exception of writing the key or
\* of running ssh; without both values no file is ever created and ssh is
\* not invoked.
C30_KeyFileIsRemoved ==
    creds # NoCreds =>
        /\ Len(ssh_calls) <= 1
        /\ ssh_calls # <<>> =>
              /\ creds.kind = "dict"
              /\ creds.ssh_priv_key # ""
              /\ creds.remote_user # ""
              /\ key_path # PyNone
              /\ ssh_calls[1].line[2] = key_path
              /\ ssh_calls[1].files =
                    {File_on_disk(key_path, decodestring(creds.ssh_priv_key).value)}
        /\ pc \in {"returned", "raised"} => disk = {}
        /\ (pc = "returned" /\ creds.ssh_priv_key # "" /\ creds.remote_user # "") =>
              Len(ssh_calls) = 1
        /\ ~(creds.kind = "dict" /\ creds.ssh_priv_key # "" /\ creds.remote_user # "") =>
              /\ disk = {}
              /\ key_path = PyNone
              /\ ssh_calls = <<>>

C30_Witness ==
    /\ pc = "raised"
    /\ raised.type = "KeyboardInterrupt"
    /\ Len(ssh_calls) = 1
    /\ ssh_calls[1].files = {File_on_disk(TempPath, "test\n")}
    /\ key_path = TempPath
    /\ disk = {}

====
